---- MODULE Spec2Model ----
(***************************************************************************)
(* pKVM paravirtualized IOMMU core: device registry (kvm/device.c),        *)
(* guest hypercall dispatcher (nvhe/iommu/pviommu.c) and the guest domain  *)
(* ID allocator, as one state machine.                                     *)
(***************************************************************************)
EXTENDS Integers, Sequences, FiniteSets, TLC

(***************************************************************************)
(* Bounds of the model                                                     *)
(***************************************************************************)
registered_devices_nr == 3
NumVMs == 2
NumIpaPages == 2
MaxPool == 2
MaxReqs == 2
MaxPgCount == 2
\* width of a bitmap word and number of words of guest_domains (scaled down)
BITS_PER_LONG == 2
NumWords == 2
\* width of a u64 / size_t (scaled down): arithmetic on them is modulo 2^REG_BITS
REG_BITS == 24

(***************************************************************************)
(* Program constants                                                       *)
(***************************************************************************)
PAGE_SIZE == 4096
PVIOMMU_VERSION == 4096
PVIOMMU_REQUEST_FEATURE_PGSZ_BITMAP == 1
SMCCC_RET_SUCCESS == 0
SMCCC_RET_INVALID_PARAMETER == -3

KVM_IOMMU_MAX_GUEST_DOMAINS == NumWords * BITS_PER_LONG
KVM_IOMMU_MAX_DOMAINS == 2 * KVM_IOMMU_MAX_GUEST_DOMAINS

NULL == 0
NODEV == 0 - 1
OK == "OK"

VMs == 1 .. NumVMs
Devs == 0 .. (registered_devices_nr - 1)
HOST_CORE == NULL
Cores == VMs \cup {HOST_CORE}

\* page owners of the host stage-2 / hyp tracking
PKVM_ID_HOST == <<"host", 0>>
PKVM_ID_HYP == <<"hyp", 0>>
PKVM_ID_GUEST(vm) == <<"guest", vm>>

(***************************************************************************)
(* The static device table (built from the device tree at boot).  Device i *)
(* is in IOMMU group i % 2, owns one MMIO page and one IOMMU endpoint      *)
(* (iommu 0, sid i).                                                       *)
(***************************************************************************)
MMIO_BASE == 16 * PAGE_SIZE

registered_devices ==
  [i \in Devs |->
     [group_id     |-> i % 2,
      nr_resources |-> 1,
      resources    |-> <<[base |-> MMIO_BASE + i * PAGE_SIZE, size |-> PAGE_SIZE]>>,
      nr_iommus    |-> 1,
      iommus       |-> <<[id |-> 0, endpoint |-> i]>>]]

\* the pages of a page-aligned range
RangePages(base, size) ==
  {base + k * PAGE_SIZE : k \in 0 .. ((size \div PAGE_SIZE) - 1)}

DevPages ==
  UNION {RangePages(registered_devices[i].resources[j].base,
                    registered_devices[i].resources[j].size) :
           i \in Devs, j \in 1 .. 1}

hyp_pfn_to_phys(pfn) == pfn * PAGE_SIZE

\* pfns the host may pass: every device page, and one page of no device
PfnInputs == {a \div PAGE_SIZE : a \in DevPages} \cup {(MMIO_BASE \div PAGE_SIZE) - 1}

\* devices for which a driver registers a reset callback: device 1, and no device
ResetPfnInputs == {(MMIO_BASE \div PAGE_SIZE) + 1, (MMIO_BASE \div PAGE_SIZE) - 1}

IpaPages == 0 .. (NumIpaPages - 1)
\* guest frame at which the host places a device page
MmioGfn(pfn) == (pfn \div 2) % NumIpaPages

INVALID_PTE == [valid |-> FALSE, phys |-> 0, level |-> 3]

VARIABLES
  ctxt,             \* registered_devices[i].ctxt: owning VM or NULL
  reset_handler,    \* registered_devices[i].reset_handler
  pageOwner,        \* owner of every device MMIO page
  s2,               \* guest stage-2 page tables: s2[vm][ipa page] is a pte
  device_spinlock,  \* NoHolder or the core holding device_spinlock
  pc,               \* per core: "idle" or inside an IOMMU operation
  op,               \* per core: the IOMMU operation in flight
  hostCall,         \* last host call into the registry: its return value and the
                    \* devices it called pkvm_device_reset on
  regs,             \* per vCPU: guest registers x0..x6
  elr,              \* per vCPU: ELR_EL2, where the guest resumes
  exit_code,        \* per vCPU: *exit_code after the last handler
  run,              \* per vCPU: "guest" (running) or "host" (exited to the host)
  hyp_reqs,         \* per vCPU: vcpu->arch.hyp_reqs, the pending requests
  pool,             \* per VM: pages in vm->iommu_pool
  mc,               \* per vCPU: pages in host_vcpu->arch.iommu_mc
  guest_domains,    \* the allocator bitmap: guest_domains[word] is a set of bits
  drv,              \* the IOMMU driver: live domains, mappings, attached endpoints
  last              \* per vCPU: what the last hypercall handler did

regvars == <<ctxt, reset_handler, pageOwner, device_spinlock, pc, op, hostCall>>
hvcvars == <<regs, elr, exit_code, run, hyp_reqs, pool, mc, guest_domains, drv, last>>
vars == <<ctxt, reset_handler, pageOwner, s2, device_spinlock, pc, op, hostCall,
          regs, elr, exit_code, run, hyp_reqs, pool, mc, guest_domains, drv, last>>

NoHolder == 0 - 1
NoOp == [kind |-> "none", id |-> 0, endpoint |-> 0, domain |-> 0, vm |-> NULL, held |-> FALSE]
NoCall == [fn |-> "none", ret |-> OK, resets |-> {}]

Min(S) == CHOOSE x \in S : \A y \in S : x <= y

(***************************************************************************)
(* Device registry                                                         *)
(***************************************************************************)
pkvm_get_device(addr) ==
  LET hit == {i \in Devs : \E j \in 1 .. registered_devices[i].nr_resources :
                /\ addr >= registered_devices[i].resources[j].base
                /\ addr < registered_devices[i].resources[j].base
                          + registered_devices[i].resources[j].size}
  IN IF hit = {} THEN NODEV ELSE Min(hit)

pkvm_get_device_by_iommu(id, endpoint) ==
  LET hit == {i \in Devs : \E j \in 1 .. registered_devices[i].nr_iommus :
                /\ id = registered_devices[i].iommus[j].id
                /\ endpoint = registered_devices[i].iommus[j].endpoint}
  IN IF hit = {} THEN NODEV ELSE Min(hit)

\* hyp_spin_lock(&device_spinlock) can return only when the lock is free
LockFree == device_spinlock = NoHolder

\* memory-protection primitives (nvhe/mem_protect.c)
hyp_check_range_owned(base, size) ==
  IF \A a \in RangePages(base, size) : pageOwner[a] = PKVM_ID_HYP THEN OK ELSE "EPERM"

host_donate_hyp(pfn) ==
  IF pageOwner[hyp_pfn_to_phys(pfn)] = PKVM_ID_HOST
  THEN [ret |-> OK, owner |-> [pageOwner EXCEPT ![hyp_pfn_to_phys(pfn)] = PKVM_ID_HYP]]
  ELSE [ret |-> "EPERM", owner |-> pageOwner]

hyp_donate_host(pfn) ==
  IF pageOwner[hyp_pfn_to_phys(pfn)] = PKVM_ID_HYP
  THEN [ret |-> OK, owner |-> [pageOwner EXCEPT ![hyp_pfn_to_phys(pfn)] = PKVM_ID_HOST]]
  ELSE [ret |-> "EPERM", owner |-> pageOwner]

pkvm_hyp_donate_guest(vm, pfn, gfn) ==
  IF pageOwner[hyp_pfn_to_phys(pfn)] = PKVM_ID_HYP /\ ~s2[vm][gfn].valid
  THEN [ret |-> OK,
        owner |-> [pageOwner EXCEPT ![hyp_pfn_to_phys(pfn)] = PKVM_ID_GUEST(vm)],
        s2 |-> [s2 EXCEPT ![vm][gfn] = [valid |-> TRUE, phys |-> hyp_pfn_to_phys(pfn),
                                        level |-> 3]]]
  ELSE [ret |-> "EPERM", owner |-> pageOwner, s2 |-> s2]

pkvm_device_reset(dev) ==
  IF reset_handler[dev] = "NULL" THEN OK
  ELSE IF reset_handler[dev] = "cb_fail" THEN "EIO" ELSE OK

RECURSIVE check_resources(_, _)
check_resources(dev, i) ==
  IF i > registered_devices[dev].nr_resources THEN OK
  ELSE LET ret == hyp_check_range_owned(registered_devices[dev].resources[i].base,
                                        registered_devices[dev].resources[i].size)
       IN IF ret # OK THEN ret ELSE check_resources(dev, i + 1)

\* variant: the resources of the device are not checked
__pkvm_device_assign_unchecked(dev, vm, c) ==
  IF pkvm_device_reset(dev) # OK
  THEN [ret |-> pkvm_device_reset(dev), ctxt |-> c, resets |-> {dev}]
  ELSE [ret |-> OK, ctxt |-> [c EXCEPT ![dev] = vm], resets |-> {dev}]

\* returns the error code, the ctxt table after the call and the devices on which
\* pkvm_device_reset was called
__pkvm_device_assign(dev, vm, c) ==
  LET ret == check_resources(dev, 1)
  IN IF ret # OK THEN [ret |-> ret, ctxt |-> c, resets |-> {}]
     ELSE IF pkvm_device_reset(dev) # OK
     THEN [ret |-> pkvm_device_reset(dev), ctxt |-> c, resets |-> {dev}]
     ELSE [ret |-> OK, ctxt |-> [c EXCEPT ![dev] = vm], resets |-> {dev}]

RECURSIVE group_assign_loop(_, _, _, _)
group_assign_loop(i, group_id, vm, c) ==
  IF i >= registered_devices_nr THEN [i |-> i, ret |-> OK, ctxt |-> c, resets |-> {}]
  ELSE IF registered_devices[i].group_id # group_id
       THEN group_assign_loop(i + 1, group_id, vm, c)
  ELSE IF c[i] # NULL THEN [i |-> i, ret |-> "EPERM", ctxt |-> c, resets |-> {}]
  ELSE LET r == __pkvm_device_assign(i, vm, c)
       IN IF r.ret # OK THEN [i |-> i, ret |-> r.ret, ctxt |-> c, resets |-> r.resets]
          ELSE [group_assign_loop(i + 1, group_id, vm, r.ctxt) EXCEPT
                  !.resets = @ \cup r.resets]

\* "while (i--) registered_devices[i].ctxt = NULL" clears every index below i
group_assign_rewind(i, c) == [j \in Devs |-> IF j < i THEN NULL ELSE c[j]]

__pkvm_group_assign(group_id, vm, c) ==
  LET l == group_assign_loop(0, group_id, vm, c)
  IN IF l.ret # OK
     THEN [ret |-> l.ret, ctxt |-> group_assign_rewind(l.i, l.ctxt), resets |-> l.resets]
     ELSE [ret |-> OK, ctxt |-> l.ctxt, resets |-> l.resets]

pkvm_device_hyp_assign_mmio(pfn) ==
  LET dev == pkvm_get_device(hyp_pfn_to_phys(pfn))
  IN IF dev = NODEV
     THEN /\ hostCall' = [fn |-> "hyp_assign_mmio", ret |-> "ENODEV", resets |-> {}]
          /\ UNCHANGED <<ctxt, reset_handler, pageOwner, s2, device_spinlock, pc, op, hvcvars>>
     ELSE /\ LockFree
          /\ IF ctxt[dev] # NULL
             THEN /\ hostCall' = [fn |-> "hyp_assign_mmio", ret |-> "EBUSY", resets |-> {}]
                  /\ UNCHANGED pageOwner
             ELSE /\ hostCall' = [fn |-> "hyp_assign_mmio", ret |-> host_donate_hyp(pfn).ret,
                                  resets |-> {}]
                  /\ pageOwner' = host_donate_hyp(pfn).owner
          /\ UNCHANGED <<ctxt, reset_handler, s2, device_spinlock, pc, op, hvcvars>>

\* variant: the page is reclaimed whoever owns the device
pkvm_device_reclaim_mmio_any_owner(pfn) ==
  LET dev == pkvm_get_device(hyp_pfn_to_phys(pfn))
  IN IF dev = NODEV
     THEN /\ hostCall' = [fn |-> "reclaim_mmio", ret |-> "ENODEV", resets |-> {}]
          /\ UNCHANGED <<ctxt, reset_handler, pageOwner, s2, device_spinlock, pc, op, hvcvars>>
     ELSE /\ LockFree
          /\ hostCall' = [fn |-> "reclaim_mmio", ret |-> hyp_donate_host(pfn).ret,
                          resets |-> {}]
          /\ pageOwner' = hyp_donate_host(pfn).owner
          /\ UNCHANGED <<ctxt, reset_handler, s2, device_spinlock, pc, op, hvcvars>>

pkvm_device_reclaim_mmio(pfn) ==
  LET dev == pkvm_get_device(hyp_pfn_to_phys(pfn))
  IN IF dev = NODEV
     THEN /\ hostCall' = [fn |-> "reclaim_mmio", ret |-> "ENODEV", resets |-> {}]
          /\ UNCHANGED <<ctxt, reset_handler, pageOwner, s2, device_spinlock, pc, op, hvcvars>>
     ELSE /\ LockFree
          /\ IF ctxt[dev] # NULL
             THEN /\ hostCall' = [fn |-> "reclaim_mmio", ret |-> "EBUSY", resets |-> {}]
                  /\ UNCHANGED pageOwner
             ELSE /\ hostCall' = [fn |-> "reclaim_mmio", ret |-> hyp_donate_host(pfn).ret,
                                  resets |-> {}]
                  /\ pageOwner' = hyp_donate_host(pfn).owner
          /\ UNCHANGED <<ctxt, reset_handler, s2, device_spinlock, pc, op, hvcvars>>

pkvm_host_map_guest_mmio(vm, pfn, gfn) ==
  LET dev == pkvm_get_device(hyp_pfn_to_phys(pfn))
  IN IF dev = NODEV
     THEN /\ hostCall' = [fn |-> "map_guest_mmio", ret |-> "ENODEV", resets |-> {}]
          /\ UNCHANGED <<ctxt, reset_handler, pageOwner, s2, device_spinlock, pc, op, hvcvars>>
     ELSE /\ LockFree
          /\ LET g == IF ctxt[dev] = NULL
                      THEN __pkvm_group_assign(registered_devices[dev].group_id, vm, ctxt)
                      ELSE IF ctxt[dev] # vm
                      THEN [ret |-> "EPERM", ctxt |-> ctxt, resets |-> {}]
                      ELSE [ret |-> OK, ctxt |-> ctxt, resets |-> {}]
                 d == pkvm_hyp_donate_guest(vm, pfn, gfn)
             IN /\ ctxt' = g.ctxt
                /\ IF g.ret # OK
                   THEN /\ hostCall' = [fn |-> "map_guest_mmio", ret |-> g.ret,
                                        resets |-> g.resets]
                        /\ UNCHANGED <<pageOwner, s2>>
                   ELSE /\ hostCall' = [fn |-> "map_guest_mmio", ret |-> d.ret,
                                        resets |-> g.resets]
                        /\ pageOwner' = d.owner
                        /\ s2' = d.s2
          /\ UNCHANGED <<reset_handler, device_spinlock, pc, op, hvcvars>>

\* variant: the ranges of the device are left with their owner
pkvm_devices_reclaim_device_nothing(dev, i, owner) == owner

\* pkvm_devices_reclaim_device: host_stage2_set_owner_locked(base, size, PKVM_ID_HOST)
RECURSIVE pkvm_devices_reclaim_device(_, _, _)
pkvm_devices_reclaim_device(dev, i, owner) ==
  IF i > registered_devices[dev].nr_resources THEN owner
  ELSE pkvm_devices_reclaim_device(dev, i + 1,
         [a \in DOMAIN owner |->
            IF a \in RangePages(registered_devices[dev].resources[i].base,
                                registered_devices[dev].resources[i].size)
            THEN PKVM_ID_HOST ELSE owner[a]])

RECURSIVE teardown_loop(_, _, _, _)
teardown_loop(i, vm, c, owner) ==
  IF i >= registered_devices_nr THEN [ctxt |-> c, owner |-> owner, resets |-> {}]
  ELSE IF c[i] # vm THEN teardown_loop(i + 1, vm, c, owner)
  ELSE [teardown_loop(i + 1, vm, [c EXCEPT ![i] = NULL],
                      pkvm_devices_reclaim_device(i, 1, owner)) EXCEPT
          !.resets = @ \cup {i}]

\* called when the VM is dying, after all its vCPUs are parked; its stage-2 is destroyed.
\* WARN_ON(pkvm_device_reset(dev)): the device is reset and a failure only warns
pkvm_devices_teardown(vm) ==
  /\ LockFree
  /\ pc[vm] = "idle"
  /\ ctxt' = teardown_loop(0, vm, ctxt, pageOwner).ctxt
  /\ pageOwner' = teardown_loop(0, vm, ctxt, pageOwner).owner
  /\ s2' = [s2 EXCEPT ![vm] = [n \in IpaPages |-> INVALID_PTE]]
  /\ hostCall' = [fn |-> "teardown", ret |-> OK,
               resets |-> teardown_loop(0, vm, ctxt, pageOwner).resets]
  /\ UNCHANGED <<reset_handler, device_spinlock, pc, op, hvcvars>>

pkvm_device_register_reset(phys, cb) ==
  LET dev == pkvm_get_device(phys)
  IN IF dev = NODEV
     THEN /\ hostCall' = [fn |-> "register_reset", ret |-> "ENODEV", resets |-> {}]
          /\ UNCHANGED <<ctxt, reset_handler, pageOwner, s2, device_spinlock, pc, op, hvcvars>>
     ELSE /\ LockFree
          /\ reset_handler' = [reset_handler EXCEPT ![dev] = cb]
          /\ hostCall' = [fn |-> "register_reset", ret |-> OK, resets |-> {}]
          /\ UNCHANGED <<ctxt, pageOwner, s2, device_spinlock, pc, op, hvcvars>>

(***************************************************************************)
(* vCPU state and the SMCCC calling convention                             *)
(***************************************************************************)
\* the guest executes its HVC instruction at HVC_ADDR; a trap leaves ELR_EL2 at HVC_ADDR + 4
HVC_ADDR == 2 * PAGE_SIZE

FuncNames == <<"MAP", "UNMAP", "ATTACH_DEV", "DETACH_DEV", "VERSION", "GET_FEATURE",
               "ALLOC_DOMAIN", "FREE_DOMAIN">>
\* the function ID in x0 (small numbers stand for the ARM_SMCCC_VENDOR_HYP_KVM_IOMMU function IDs)
FuncId(name) == CHOOSE i \in 1 .. Len(FuncNames) : FuncNames[i] = name

ZeroRegs == [x0 |-> 0, x1 |-> 0, x2 |-> 0, x3 |-> 0, x4 |-> 0, x5 |-> 0, x6 |-> 0]

smccc_set_retval(r, a0, a1, a2, a3) ==
  [r EXCEPT !.x0 = a0, !.x1 = a1, !.x2 = a2, !.x3 = a3]

Words == 0 .. (NumWords - 1)
Bits == 0 .. (BITS_PER_LONG - 1)
DomainIds == 0 .. (KVM_IOMMU_MAX_DOMAINS - 1)
GuestBase == KVM_IOMMU_MAX_DOMAINS \div 2
IovaPages == 0 .. (MaxPgCount - 1)
NOMAP == 0 - 1
EBUSY == 0 - 16

\* guest memory: the host backs ipa page n of vm with this physical page
MEM_BASE == 64 * PAGE_SIZE
GuestMemPa(vm, n) == MEM_BASE + ((vm - 1) * NumIpaPages + n) * PAGE_SIZE
\* ... or backs ipa pages 0 and 1 with one level-2 block
BlockPa(vm) == 2 * MEM_BASE + (vm - 1) * 2 * PAGE_SIZE

(***************************************************************************)
(* Hyp requests (vcpu->arch.hyp_reqs)                                      *)
(***************************************************************************)
\* variant: the request area is reported empty
__need_req_never(reqs) == FALSE

__need_req(reqs) == Len(reqs) > 0

\* pkvm_hyp_req_reserve: the next free slot, or none when the area is full
pkvm_hyp_req_reserve(reqs) == Len(reqs) < MaxReqs

(***************************************************************************)
(* The IOMMU driver layer (the kvm_iommu functions), operating on         *)
(*   d : the driver state, p : pages in the VM's iommu pool,               *)
(*   q : the calling vCPU's hyp requests.                                  *)
(* Every allocation takes one page of the pool; when the pool is empty the *)
(* allocator posts a memory request and the operation fails.               *)
(***************************************************************************)
kvm_iommu_request_mem(q) ==
  IF pkvm_hyp_req_reserve(q) THEN Append(q, [type |-> "MEM", ipa |-> 0, size |-> 0]) ELSE q

kvm_iommu_alloc_domain(d, p, q, vm, domain_id) ==
  IF domain_id \notin DomainIds \/ d.domains[domain_id] # NULL
  THEN [ret |-> "EINVAL", drv |-> d, pool |-> p, reqs |-> q]
  ELSE IF p = 0
  THEN [ret |-> "ENOMEM", drv |-> d, pool |-> p, reqs |-> kvm_iommu_request_mem(q)]
  ELSE [ret |-> OK, drv |-> [d EXCEPT !.domains[domain_id] = vm], pool |-> p - 1, reqs |-> q]

DomainBusy(d, domain_id) ==
  \/ \E n \in IovaPages : d.maps[domain_id][n] # NOMAP
  \/ \E a \in d.attach : a[3] = domain_id

kvm_iommu_free_domain(d, domain_id) ==
  IF domain_id \notin DomainIds \/ d.domains[domain_id] = NULL \/ DomainBusy(d, domain_id)
  THEN [ret |-> "EINVAL", drv |-> d]
  ELSE [ret |-> OK, drv |-> [d EXCEPT !.domains[domain_id] = NULL]]

\* maps one page (the dispatcher always passes pgcount = 1); returns the mapped bytes
kvm_iommu_map_pages(d, p, q, domain, iova, paddr, pgsize, pgcount, prot) ==
  IF \/ domain \notin DomainIds
     \/ d.domains[domain] = NULL
     \/ (iova \div PAGE_SIZE) \notin IovaPages
     \/ d.maps[domain][iova \div PAGE_SIZE] # NOMAP
  THEN [mapped |-> 0, oom |-> FALSE, drv |-> d, pool |-> p, reqs |-> q]
  ELSE IF p = 0
  THEN [mapped |-> 0, oom |-> TRUE, drv |-> d, pool |-> p, reqs |-> kvm_iommu_request_mem(q)]
  ELSE [mapped |-> pgsize * pgcount, oom |-> FALSE,
        drv |-> [d EXCEPT !.maps[domain][iova \div PAGE_SIZE] = paddr],
        pool |-> p - 1, reqs |-> q]

\* unmaps the leading run of mapped pages of the range; returns the unmapped bytes
RECURSIVE unmap_run(_, _, _, _)
unmap_run(d, domain, n, count) ==
  IF count = 0 \/ n \notin IovaPages \/ d.maps[domain][n] = NOMAP THEN 0
  ELSE 1 + unmap_run(d, domain, n + 1, count - 1)

kvm_iommu_unmap_pages(d, domain, iova, pgsize, pgcount) ==
  IF domain \notin DomainIds \/ d.domains[domain] = NULL
  THEN [unmapped |-> 0, drv |-> d]
  ELSE LET k == unmap_run(d, domain, iova \div PAGE_SIZE, pgcount)
       IN [unmapped |-> k * pgsize,
           drv |-> [d EXCEPT !.maps[domain] =
                      [n \in IovaPages |->
                         IF n >= iova \div PAGE_SIZE /\ n < (iova \div PAGE_SIZE) + k
                         THEN NOMAP ELSE d.maps[domain][n]]]]

(***************************************************************************)
(* Guest domain ID allocator                                               *)
(***************************************************************************)
\* find first zero bit of a word that is not full
ffz(word) == Min(Bits \ word)

\* variant: the guest base is not added to the bit index
pkvm_guest_iommu_alloc_id_no_base(gd) ==
  LET notfull == {i \in Words : gd[i] # Bits}
  IN IF notfull = {} THEN EBUSY ELSE ffz(gd[Min(notfull)])

pkvm_guest_iommu_alloc_id(gd) ==
  LET notfull == {i \in Words : gd[i] # Bits}
  IN IF notfull = {} THEN EBUSY
     ELSE ffz(gd[Min(notfull)]) + (KVM_IOMMU_MAX_DOMAINS \div 2)

\* variant: the whole word of the ID is cleared
pkvm_guest_iommu_free_id_word(gd, domain_id) ==
  LET id == domain_id - (KVM_IOMMU_MAX_DOMAINS \div 2)
  IN IF id < 0 \/ id >= KVM_IOMMU_MAX_GUEST_DOMAINS THEN gd
     ELSE [gd EXCEPT ![id \div BITS_PER_LONG] = {}]

pkvm_guest_iommu_free_id(gd, domain_id) ==
  LET id == domain_id - (KVM_IOMMU_MAX_DOMAINS \div 2)
  IN IF id < 0 \/ id >= KVM_IOMMU_MAX_GUEST_DOMAINS THEN gd
     ELSE [gd EXCEPT ![id \div BITS_PER_LONG] = @ \ {id % BITS_PER_LONG}]

(***************************************************************************)
(* Hypercall handlers.  A handler takes the trap state T of the calling    *)
(* vCPU (registers, ELR, exit code, requests, refilled pool, driver state, *)
(* bitmap, log of driver calls) and returns it as the handler leaves it;   *)
(* resume is the handler's return value (true: re-enter the guest).        *)
(***************************************************************************)
\* a product or sum of u64 / size_t values as the machine computes it
u64(x) == x % (2 ^ REG_BITS)

refill_hyp_pool(p, m) == p + m

\* pviommu_guest_domain_lock as the number of holders: 0 free, 1 held, and below 0
\* after an unlock of the free lock.  The handlers run one at a time, so each finds
\* the lock as the handlers before it left it, free unless one unlocked it twice.
hyp_spin_lock(l) == l + 1
hyp_spin_unlock(l) == l - 1

Trap(v, r) ==
  [regs |-> r, elr |-> HVC_ADDR + 4, exit_code |-> "TRAP", resume |-> TRUE,
   reqs |-> hyp_reqs[v], pool |-> refill_hyp_pool(pool[v], mc[v]),
   drv |-> drv, gd |-> guest_domains, calls |-> <<>>, lock |-> 0]

Call(fn, domain, a, b, ipa, res, oom) ==
  [fn |-> fn, domain |-> domain, a |-> a, b |-> b, ipa |-> ipa, res |-> res, oom |-> oom]

kvm_pgtable_get_leaf(vm, ipa) ==
  IF (ipa \div PAGE_SIZE) \in IpaPages
  THEN [ret |-> OK, pte |-> s2[vm][ipa \div PAGE_SIZE]]
  ELSE [ret |-> "ERANGE", pte |-> INVALID_PTE]

\* block size of a leaf at this level (two pages per table in this model)
kvm_granule_size(level) == IF level = 3 THEN PAGE_SIZE ELSE 2 * PAGE_SIZE

\* variant: an ipa without a valid leaf is taken as the physical address
pkvm_get_guest_pa_on_faith(vm, ipa, ipa_size, q, ec) ==
  LET l == kvm_pgtable_get_leaf(vm, ipa)
  IN IF l.ret # OK \/ ~l.pte.valid
     THEN [ret |-> OK, pa |-> ipa, reqs |-> q, exit_code |-> ec]
     ELSE [ret |-> OK,
           pa |-> l.pte.phys
                  + ((ipa % kvm_granule_size(l.pte.level)) \div PAGE_SIZE) * PAGE_SIZE,
           reqs |-> q, exit_code |-> ec]

pkvm_get_guest_pa(vm, ipa, ipa_size, q, ec) ==
  LET l == kvm_pgtable_get_leaf(vm, ipa)
  IN IF l.ret # OK \/ ~l.pte.valid
     THEN IF ~pkvm_hyp_req_reserve(q)
          THEN [ret |-> "ENOMEM", pa |-> 0, reqs |-> q, exit_code |-> ec]
          ELSE [ret |-> "ENODEV", pa |-> 0,
                reqs |-> Append(q, [type |-> "MAP", ipa |-> ipa, size |-> ipa_size]),
                exit_code |-> "HYP_REQ"]
     ELSE [ret |-> OK,
           pa |-> l.pte.phys
                  + ((ipa % kvm_granule_size(l.pte.level)) \div PAGE_SIZE) * PAGE_SIZE,
           reqs |-> q, exit_code |-> ec]

\* variant: a pending request is not looked at
prev_guest_req_never(T) == [hit |-> FALSE, t |-> T]

prev_guest_req(T) ==
  IF __need_req(T.reqs)
  THEN [hit |-> TRUE, t |-> [T EXCEPT !.elr = @ - 4, !.exit_code = "HYP_REQ"]]
  ELSE [hit |-> FALSE, t |-> T]

\* wire protection bits to IOMMU_* bits: the six defined bits map one to one
__smccc_prot_linux(prot) == prot % 64

\* the while (pgcount--) loop; m carries what the loop has done so far
RECURSIVE map_loop(_, _, _, _, _, _, _, _)
map_loop(vm, domain, iova, ipa, pgsize, pgcount, prot, m) ==
  IF pgcount = 0 THEN m
  ELSE LET w == pkvm_get_guest_pa(vm, ipa, pgsize * (pgcount - 1), m.reqs, m.exit_code)
       IN IF w.ret # OK
          THEN [m EXCEPT !.reqs = w.reqs, !.exit_code = w.exit_code]
          ELSE LET k == kvm_iommu_map_pages(m.drv, m.pool, m.reqs, domain, iova, w.pa,
                                            pgsize, 1, __smccc_prot_linux(prot))
                   c == Append(m.calls, Call("map_pages", domain, iova, w.pa, ipa,
                                             k.mapped, k.oom))
               IN IF k.mapped = 0
                  THEN [m EXCEPT !.reqs = k.reqs, !.calls = c,
                                 !.smccc_ret = IF ~__need_req(k.reqs)
                                               THEN SMCCC_RET_INVALID_PARAMETER ELSE @]
                  ELSE map_loop(vm, domain, iova + pgsize, ipa + pgsize, pgsize,
                                pgcount - 1, prot,
                                [m EXCEPT !.drv = k.drv, !.pool = k.pool, !.reqs = k.reqs,
                                          !.calls = c, !.total_mapped = @ + pgsize])

\* variant: the pending request is looked at before the page size
pkvm_guest_iommu_map_stale_first(vm, T) ==
  LET r == T.regs
  IN IF prev_guest_req(T).hit
     THEN [prev_guest_req(T).t EXCEPT !.resume = FALSE]
     ELSE IF r.x4 # PAGE_SIZE
     THEN [T EXCEPT !.regs = smccc_set_retval(r, SMCCC_RET_INVALID_PARAMETER, 0, 0, 0)]
     ELSE LET m == map_loop(vm, r.x1, r.x2, r.x3, r.x4, r.x5, r.x6,
                            [drv |-> T.drv, pool |-> T.pool, reqs |-> T.reqs,
                             exit_code |-> T.exit_code, calls |-> T.calls,
                             smccc_ret |-> SMCCC_RET_SUCCESS, total_mapped |-> 0])
          IN [T EXCEPT !.regs = smccc_set_retval(r, m.smccc_ret, m.total_mapped, 0, 0),
                       !.drv = m.drv, !.pool = m.pool, !.reqs = m.reqs,
                       !.exit_code = m.exit_code, !.calls = m.calls]

\* variant: the whole requested size is reported as mapped
pkvm_guest_iommu_map_whole(vm, T) ==
  LET r == T.regs
  IN IF r.x4 # PAGE_SIZE
     THEN [T EXCEPT !.regs = smccc_set_retval(r, SMCCC_RET_INVALID_PARAMETER, 0, 0, 0)]
     ELSE IF prev_guest_req(T).hit
     THEN [prev_guest_req(T).t EXCEPT !.resume = FALSE]
     ELSE LET m == map_loop(vm, r.x1, r.x2, r.x3, r.x4, r.x5, r.x6,
                            [drv |-> T.drv, pool |-> T.pool, reqs |-> T.reqs,
                             exit_code |-> T.exit_code, calls |-> T.calls,
                             smccc_ret |-> SMCCC_RET_SUCCESS, total_mapped |-> 0])
          IN [T EXCEPT !.regs = smccc_set_retval(r, m.smccc_ret, r.x4 * r.x5, 0, 0),
                       !.drv = m.drv, !.pool = m.pool, !.reqs = m.reqs,
                       !.exit_code = m.exit_code, !.calls = m.calls]

pkvm_guest_iommu_map(vm, T) ==
  LET r == T.regs
  IN IF r.x4 # PAGE_SIZE
     THEN [T EXCEPT !.regs = smccc_set_retval(r, SMCCC_RET_INVALID_PARAMETER, 0, 0, 0)]
     ELSE IF prev_guest_req(T).hit
     THEN [prev_guest_req(T).t EXCEPT !.resume = FALSE]
     ELSE LET m == map_loop(vm, r.x1, r.x2, r.x3, r.x4, r.x5, r.x6,
                            [drv |-> T.drv, pool |-> T.pool, reqs |-> T.reqs,
                             exit_code |-> T.exit_code, calls |-> T.calls,
                             smccc_ret |-> SMCCC_RET_SUCCESS, total_mapped |-> 0])
          IN [T EXCEPT !.regs = smccc_set_retval(r, m.smccc_ret, m.total_mapped, 0, 0),
                       !.drv = m.drv, !.pool = m.pool, !.reqs = m.reqs,
                       !.exit_code = m.exit_code, !.calls = m.calls]

pkvm_guest_iommu_unmap(vm, T) ==
  LET r == T.regs
  IN IF r.x3 # PAGE_SIZE
     THEN [T EXCEPT !.regs = smccc_set_retval(r, SMCCC_RET_INVALID_PARAMETER, 0, 0, 0)]
     ELSE IF prev_guest_req(T).hit
     THEN [prev_guest_req(T).t EXCEPT !.resume = FALSE]
     ELSE LET u == kvm_iommu_unmap_pages(T.drv, r.x1, r.x2, r.x3, r.x4)
              size == u64(r.x3 * r.x4)
              ret == IF u.unmapped < size /\ ~__need_req(T.reqs)
                     THEN SMCCC_RET_INVALID_PARAMETER ELSE SMCCC_RET_SUCCESS
          IN [T EXCEPT !.regs = smccc_set_retval(r, ret, u.unmapped, 0, 0),
                       !.drv = u.drv,
                       !.calls = Append(@, Call("unmap_pages", r.x1, r.x2, r.x4, 0,
                                                u.unmapped, FALSE))]

\* variant: the exit is requested without rewinding ELR_EL2
pkvm_pviommu_hyp_req_no_rewind(T) == [T EXCEPT !.exit_code = "HYP_REQ"]

pkvm_pviommu_hyp_req(T) == [T EXCEPT !.elr = @ - 4, !.exit_code = "HYP_REQ"]

pkvm_guest_iommu_version(vm, T) ==
  [T EXCEPT !.regs = smccc_set_retval(T.regs, SMCCC_RET_SUCCESS, PVIOMMU_VERSION, 0, 0)]

\* variant: the feature is answered for viommu 0 only
pkvm_guest_iommu_get_feature_per_iommu(vm, T) ==
  IF T.regs.x2 = PVIOMMU_REQUEST_FEATURE_PGSZ_BITMAP /\ T.regs.x1 = 0
  THEN [T EXCEPT !.regs = smccc_set_retval(T.regs, SMCCC_RET_SUCCESS, PAGE_SIZE, 0, 0)]
  ELSE [T EXCEPT !.regs = smccc_set_retval(T.regs, SMCCC_RET_INVALID_PARAMETER, 0, 0, 0)]

pkvm_guest_iommu_get_feature(vm, T) ==
  IF T.regs.x2 = PVIOMMU_REQUEST_FEATURE_PGSZ_BITMAP
  THEN [T EXCEPT !.regs = smccc_set_retval(T.regs, SMCCC_RET_SUCCESS, PAGE_SIZE, 0, 0)]
  ELSE [T EXCEPT !.regs = smccc_set_retval(T.regs, SMCCC_RET_INVALID_PARAMETER, 0, 0, 0)]

\* variant: out-of-memory from the driver is handled like any other failure
pkvm_guest_iommu_alloc_domain_oom_inval(vm, T) ==
  LET domain_id == pkvm_guest_iommu_alloc_id(T.gd)
  IN IF domain_id < 0
     THEN [T EXCEPT !.lock = hyp_spin_unlock(hyp_spin_unlock(hyp_spin_lock(@))),
                    !.regs = smccc_set_retval(T.regs, SMCCC_RET_INVALID_PARAMETER, 0, 0, 0)]
     ELSE LET a == kvm_iommu_alloc_domain(T.drv, T.pool, T.reqs, vm, domain_id)
              c == Append(T.calls, Call("alloc_domain", domain_id, 0, 0, 0, a.ret,
                                        a.ret = "ENOMEM"))
          IN IF a.ret # OK
             THEN [T EXCEPT !.gd = pkvm_guest_iommu_free_id(T.gd, domain_id),
                            !.lock = hyp_spin_unlock(hyp_spin_lock(@)),
                            !.reqs = a.reqs, !.calls = c,
                            !.regs = smccc_set_retval(T.regs, SMCCC_RET_INVALID_PARAMETER,
                                                      0, 0, 0)]
             ELSE [T EXCEPT !.drv = a.drv, !.pool = a.pool, !.calls = c,
                            !.lock = hyp_spin_unlock(hyp_spin_lock(@)),
                            !.regs = smccc_set_retval(T.regs, SMCCC_RET_SUCCESS,
                                                      domain_id, 0, 0)]

pkvm_guest_iommu_alloc_domain(vm, T) ==
  LET domain_id == pkvm_guest_iommu_alloc_id(T.gd)
  IN IF domain_id < 0
     \* unlocked before the goto, and once more at out_inval
     THEN [T EXCEPT !.lock = hyp_spin_unlock(hyp_spin_unlock(hyp_spin_lock(@))),
                    !.regs = smccc_set_retval(T.regs, SMCCC_RET_INVALID_PARAMETER, 0, 0, 0)]
     ELSE LET a == kvm_iommu_alloc_domain(T.drv, T.pool, T.reqs, vm, domain_id)
              c == Append(T.calls, Call("alloc_domain", domain_id, 0, 0, 0, a.ret,
                                        a.ret = "ENOMEM"))
          IN IF a.ret = "ENOMEM"
             THEN [pkvm_pviommu_hyp_req(T) EXCEPT
                     !.gd = pkvm_guest_iommu_free_id(T.gd, domain_id),
                     !.lock = hyp_spin_unlock(hyp_spin_lock(@)),
                     !.reqs = a.reqs, !.calls = c, !.resume = FALSE]
             ELSE IF a.ret # OK
             THEN [T EXCEPT !.gd = pkvm_guest_iommu_free_id(T.gd, domain_id),
                            !.lock = hyp_spin_unlock(hyp_spin_lock(@)),
                            !.calls = c,
                            !.regs = smccc_set_retval(T.regs, SMCCC_RET_INVALID_PARAMETER,
                                                      0, 0, 0)]
             ELSE [T EXCEPT !.drv = a.drv, !.pool = a.pool, !.calls = c,
                            !.lock = hyp_spin_unlock(hyp_spin_lock(@)),
                            !.regs = smccc_set_retval(T.regs, SMCCC_RET_SUCCESS,
                                                      domain_id, 0, 0)]

\* variant: the driver's error code is returned to the guest as it is
pkvm_guest_iommu_free_domain_verbatim(vm, T) ==
  LET domain_id == T.regs.x1
      f == kvm_iommu_free_domain(T.drv, domain_id)
  IN [T EXCEPT !.drv = f.drv,
               !.gd = IF f.ret = OK THEN pkvm_guest_iommu_free_id(T.gd, domain_id) ELSE @,
               !.lock = hyp_spin_unlock(hyp_spin_lock(@)),
               !.calls = Append(@, Call("free_domain", domain_id, 0, 0, 0, f.ret, FALSE)),
               !.regs = smccc_set_retval(T.regs,
                          IF f.ret # OK THEN 0 - 22 ELSE SMCCC_RET_SUCCESS, 0, 0, 0)]

pkvm_guest_iommu_free_domain(vm, T) ==
  LET domain_id == T.regs.x1
      f == kvm_iommu_free_domain(T.drv, domain_id)
  IN [T EXCEPT !.drv = f.drv,
               !.gd = IF f.ret = OK THEN pkvm_guest_iommu_free_id(T.gd, domain_id) ELSE @,
               !.lock = hyp_spin_unlock(hyp_spin_lock(@)),
               !.calls = Append(@, Call("free_domain", domain_id, 0, 0, 0, f.ret, FALSE)),
               !.regs = smccc_set_retval(T.regs,
                          IF f.ret # OK THEN SMCCC_RET_INVALID_PARAMETER
                          ELSE SMCCC_RET_SUCCESS, 0, 0, 0)]

(***************************************************************************)
(* Routing and IOMMU-operation gating                                      *)
(***************************************************************************)
\* the routes the host declared before launch: every VM has one viommu (0) whose
\* vsid 0 is the endpoint of device 1 and whose vsid 1 is an endpoint of no
\* registered device
RouteTable ==
  [vm \in VMs |-> {[viommu |-> 0, vsid |-> 0, iommu |-> 0, sid |-> 1],
                   [viommu |-> 0, vsid |-> 1, iommu |-> 0, sid |-> registered_devices_nr]}]

pkvm_pviommu_route(vm, viommu, vsid) ==
  LET hit == {e \in RouteTable[vm] : e.viommu = viommu /\ e.vsid = vsid}
  IN IF hit = {} THEN [ret |-> "ENOENT", iommu |-> 0, sid |-> 0]
     ELSE [ret |-> OK, iommu |-> (CHOOSE e \in hit : TRUE).iommu,
           sid |-> (CHOOSE e \in hit : TRUE).sid]

\* the host's calls that declare the routes (pviommu-host.c): none of them reads or
\* writes pviommus[], and each returns one value whatever its arguments
pkvm_pviommu_attach(host_kvm, pviommu) == "ENODEV"

pkvm_pviommu_add_vsid(host_kvm, pviommu, iommu, sid, vsid) == "ENODEV"

pkvm_pviommu_finalise(hyp_vm) == OK

\* variant: the lock is released before a successful return
pkvm_devices_iommu_lock_released(id, endpoint, vcpu) ==
  LET dev == pkvm_get_device_by_iommu(id, endpoint)
  IN IF dev = NODEV
     THEN [ret |-> IF vcpu # NULL THEN "EPERM" ELSE OK, spin |-> FALSE, held |-> FALSE]
     ELSE IF ctxt[dev] = vcpu
     THEN [ret |-> OK, spin |-> TRUE, held |-> FALSE]
     ELSE [ret |-> "EPERM", spin |-> TRUE, held |-> FALSE]

\* variant: the owner of the device is not compared with the caller
pkvm_devices_iommu_lock_any_owner(id, endpoint, vcpu) ==
  LET dev == pkvm_get_device_by_iommu(id, endpoint)
  IN IF dev = NODEV
     THEN [ret |-> IF vcpu # NULL THEN "EPERM" ELSE OK, spin |-> FALSE, held |-> FALSE]
     ELSE [ret |-> OK, spin |-> TRUE, held |-> TRUE]

\* vcpu is NULL for the host, else the VM of the calling vCPU.  spin: the call goes
\* through hyp_spin_lock; held: device_spinlock is held when the call returns
pkvm_devices_iommu_lock(id, endpoint, vcpu) ==
  LET dev == pkvm_get_device_by_iommu(id, endpoint)
  IN IF dev = NODEV
     THEN [ret |-> IF vcpu # NULL THEN "EPERM" ELSE OK, spin |-> FALSE, held |-> FALSE]
     ELSE IF ctxt[dev] = vcpu
     THEN [ret |-> OK, spin |-> TRUE, held |-> TRUE]
     ELSE [ret |-> "EPERM", spin |-> TRUE, held |-> FALSE]

\* variant: the unlock leaves device_spinlock as it is
pkvm_devices_iommu_unlock_noop(id, endpoint) == device_spinlock

\* the value of device_spinlock after pkvm_devices_iommu_unlock
pkvm_devices_iommu_unlock(id, endpoint) ==
  IF pkvm_get_device_by_iommu(id, endpoint) # NODEV THEN NoHolder ELSE device_spinlock

\* kvm_iommu_attach_dev and kvm_iommu_detach_dev gate the driver call on the registry:
\* they take the lock of the endpoint for the calling vCPU, call the driver when the
\* lock is granted, and release the lock
kvm_iommu_dev_lock(iommu, sid, vcpu) == pkvm_devices_iommu_lock(iommu, sid, vcpu)
kvm_iommu_dev_unlock(iommu, sid) == pkvm_devices_iommu_unlock(iommu, sid)

\* the driver's attach_dev / detach_dev
iommu_attach_dev(d, p, q, iommu, domain, sid, pasid, pasid_bits) ==
  IF \/ domain \notin DomainIds
     \/ d.domains[domain] = NULL
     \/ \E a \in d.attach : a[1] = iommu /\ a[2] = sid
  THEN [ret |-> "EINVAL", drv |-> d, pool |-> p, reqs |-> q]
  ELSE IF p = 0
  THEN [ret |-> "ENOMEM", drv |-> d, pool |-> p, reqs |-> kvm_iommu_request_mem(q)]
  ELSE [ret |-> OK, drv |-> [d EXCEPT !.attach = @ \cup {<<iommu, sid, domain>>}],
        pool |-> p - 1, reqs |-> q]

iommu_detach_dev(d, iommu, domain, sid, pasid) ==
  IF <<iommu, sid, domain>> \notin d.attach
  THEN [ret |-> "EINVAL", drv |-> d]
  ELSE [ret |-> OK, drv |-> [d EXCEPT !.attach = @ \ {<<iommu, sid, domain>>}]]

(***************************************************************************)
(* The dispatcher                                                          *)
(***************************************************************************)
\* what the handler leaves behind for vCPU v
Commit(v, fn, r, H) ==
  /\ regs' = [regs EXCEPT ![v] = H.regs]
  /\ elr' = [elr EXCEPT ![v] = H.elr]
  /\ exit_code' = [exit_code EXCEPT ![v] = H.exit_code]
  /\ run' = [run EXCEPT ![v] = IF H.resume THEN "guest" ELSE "host"]
  /\ hyp_reqs' = [hyp_reqs EXCEPT ![v] = H.reqs]
  /\ pool' = [pool EXCEPT ![v] = H.pool]
  /\ mc' = [mc EXCEPT ![v] = 0]
  /\ guest_domains' = H.gd
  /\ drv' = H.drv
  /\ last' = [last EXCEPT ![v] = [fn |-> fn, entry |-> r, resume |-> H.resume,
                                  calls |-> H.calls, lock |-> H.lock]]

\* variant: a function ID without a case asks the host for memory
kvm_handle_pviommu_hvc_rewind(v, r) ==
  /\ run[v] = "guest"
  /\ pc[v] = "idle"
  /\ LET T == Trap(v, r)
     IN CASE r.x0 = FuncId("MAP") -> Commit(v, "MAP", r, pkvm_guest_iommu_map(v, T))
          [] r.x0 = FuncId("UNMAP") -> Commit(v, "UNMAP", r, pkvm_guest_iommu_unmap(v, T))
          [] r.x0 = FuncId("VERSION") ->
               Commit(v, "VERSION", r, pkvm_guest_iommu_version(v, T))
          [] r.x0 = FuncId("GET_FEATURE") ->
               Commit(v, "GET_FEATURE", r, pkvm_guest_iommu_get_feature(v, T))
          [] r.x0 = FuncId("ALLOC_DOMAIN") ->
               Commit(v, "ALLOC_DOMAIN", r, pkvm_guest_iommu_alloc_domain(v, T))
          [] r.x0 = FuncId("FREE_DOMAIN") ->
               Commit(v, "FREE_DOMAIN", r, pkvm_guest_iommu_free_domain(v, T))
          [] OTHER -> Commit(v, "UNKNOWN", r, [pkvm_pviommu_hyp_req(T) EXCEPT !.resume = FALSE])
  /\ UNCHANGED <<regvars, s2>>

\* the handlers that run in one piece
kvm_handle_pviommu_hvc(v, r) ==
  /\ run[v] = "guest"
  /\ pc[v] = "idle"
  /\ LET T == Trap(v, r)
     IN CASE r.x0 = FuncId("MAP") -> Commit(v, "MAP", r, pkvm_guest_iommu_map(v, T))
          [] r.x0 = FuncId("UNMAP") -> Commit(v, "UNMAP", r, pkvm_guest_iommu_unmap(v, T))
          [] r.x0 = FuncId("VERSION") ->
               Commit(v, "VERSION", r, pkvm_guest_iommu_version(v, T))
          [] r.x0 = FuncId("GET_FEATURE") ->
               Commit(v, "GET_FEATURE", r, pkvm_guest_iommu_get_feature(v, T))
          [] r.x0 = FuncId("ALLOC_DOMAIN") ->
               Commit(v, "ALLOC_DOMAIN", r, pkvm_guest_iommu_alloc_domain(v, T))
          [] r.x0 = FuncId("FREE_DOMAIN") ->
               Commit(v, "FREE_DOMAIN", r, pkvm_guest_iommu_free_domain(v, T))
          \* no case of the switch: "return false", the call is left to the host
          [] OTHER -> Commit(v, "UNKNOWN", r, [T EXCEPT !.resume = FALSE])
  /\ UNCHANGED <<regvars, s2>>

\* variant: the guest's viommu and vsid are used as the physical IDs
pkvm_guest_iommu_dev_begin_unrouted(v, fn, r) ==
  /\ run[v] = "guest"
  /\ pc[v] = "idle"
  /\ LET T == Trap(v, r)
         l == kvm_iommu_dev_lock(r.x1, r.x2, v)
         inval == [T EXCEPT !.regs = smccc_set_retval(r, SMCCC_RET_INVALID_PARAMETER,
                                                      0, 0, 0)]
     IN /\ l.spin => LockFree
        /\ IF l.ret # OK
           THEN Commit(v, fn, r, inval) /\ UNCHANGED <<regvars, s2>>
           ELSE /\ Commit(v, fn, r, T)
                /\ pc' = [pc EXCEPT ![v] = "iommu_op"]
                /\ op' = [op EXCEPT ![v] = [kind |-> fn, id |-> r.x1,
                                            endpoint |-> r.x2, domain |-> r.x4,
                                            vm |-> v, held |-> l.held]]
                /\ device_spinlock' = IF l.held THEN v ELSE device_spinlock
                /\ UNCHANGED <<ctxt, reset_handler, pageOwner, hostCall, s2>>

\* ATTACH_DEV / DETACH_DEV up to the return of pkvm_devices_iommu_lock
pkvm_guest_iommu_dev_begin(v, fn, r) ==
  /\ run[v] = "guest"
  /\ pc[v] = "idle"
  /\ LET T == Trap(v, r)
         route == pkvm_pviommu_route(v, r.x1, r.x2)
         l == kvm_iommu_dev_lock(route.iommu, route.sid, v)
         inval == [T EXCEPT !.regs = smccc_set_retval(r, SMCCC_RET_INVALID_PARAMETER,
                                                      0, 0, 0)]
     IN IF route.ret # OK
        THEN Commit(v, fn, r, inval) /\ UNCHANGED <<regvars, s2>>
        ELSE /\ l.spin => LockFree
             /\ IF l.ret # OK
                THEN Commit(v, fn, r, inval) /\ UNCHANGED <<regvars, s2>>
                ELSE /\ Commit(v, fn, r, T)
                     /\ pc' = [pc EXCEPT ![v] = "iommu_op"]
                     /\ op' = [op EXCEPT ![v] = [kind |-> fn, id |-> route.iommu,
                                                 endpoint |-> route.sid, domain |-> r.x4,
                                                 vm |-> v, held |-> l.held]]
                     /\ device_spinlock' = IF l.held THEN v ELSE device_spinlock
                     /\ UNCHANGED <<ctxt, reset_handler, pageOwner, hostCall, s2>>

\* ... and from there to the return of the handler
pkvm_guest_iommu_dev_end(v) ==
  /\ pc[v] = "iommu_op"
  /\ LET r == regs[v]
         o == op[v]
         T == [Trap(v, r) EXCEPT !.calls = last[v].calls]
         a == iommu_attach_dev(T.drv, T.pool, T.reqs, o.id, o.domain, o.endpoint,
                               r.x3, r.x5)
         d == iommu_detach_dev(T.drv, o.id, o.domain, o.endpoint, r.x3)
         ret == IF o.kind = "ATTACH_DEV" THEN a.ret ELSE d.ret
         c == Append(T.calls, Call(IF o.kind = "ATTACH_DEV" THEN "attach_dev"
                                   ELSE "detach_dev",
                                   o.domain, o.id, o.endpoint, 0, ret, ret = "ENOMEM"))
         code == IF ret # OK THEN SMCCC_RET_INVALID_PARAMETER ELSE SMCCC_RET_SUCCESS
     IN IF o.kind = "ATTACH_DEV"
        THEN IF a.ret = "ENOMEM"
             THEN Commit(v, o.kind, last[v].entry,
                         [pkvm_pviommu_hyp_req(T) EXCEPT !.reqs = a.reqs, !.calls = c,
                                                        !.resume = FALSE])
             ELSE Commit(v, o.kind, last[v].entry,
                         [T EXCEPT !.drv = a.drv, !.pool = a.pool, !.calls = c,
                                   !.regs = smccc_set_retval(r, code, 0, 0, 0)])
        ELSE Commit(v, o.kind, last[v].entry,
                    [T EXCEPT !.drv = d.drv, !.calls = c,
                              !.regs = smccc_set_retval(r, code, 0, 0, 0)])
  /\ device_spinlock' = kvm_iommu_dev_unlock(op[v].id, op[v].endpoint)
  /\ pc' = [pc EXCEPT ![v] = "idle"]
  /\ op' = [op EXCEPT ![v] = NoOp]
  /\ UNCHANGED <<ctxt, reset_handler, pageOwner, hostCall, s2>>

\* ALLOC_DOMAIN and FREE_DOMAIN with the critical section of pviommu_guest_domain_lock
\* made visible: the cores inside it are those whose pc is "domain_locked"
DomainLockHolders == {c \in Cores : pc[c] = "domain_locked"}

\* ... up to the return of hyp_spin_lock(&pviommu_guest_domain_lock)
pkvm_guest_domain_lock(v, r) ==
  /\ run[v] = "guest"
  /\ pc[v] = "idle"
  /\ r.x0 \in {FuncId("ALLOC_DOMAIN"), FuncId("FREE_DOMAIN")}
  /\ DomainLockHolders = {}
  /\ pc' = [pc EXCEPT ![v] = "domain_locked"]
  /\ regs' = [regs EXCEPT ![v] = r]
  /\ UNCHANGED <<ctxt, reset_handler, pageOwner, s2, device_spinlock, op, hostCall,
                 elr, exit_code, run, hyp_reqs, pool, mc, guest_domains, drv, last>>

\* ... and from there to the return of the handler
pkvm_guest_domain_section(v) ==
  /\ pc[v] = "domain_locked"
  /\ LET r == regs[v]
         T == Trap(v, r)
     IN IF r.x0 = FuncId("ALLOC_DOMAIN")
        THEN Commit(v, "ALLOC_DOMAIN", r, pkvm_guest_iommu_alloc_domain(v, T))
        ELSE Commit(v, "FREE_DOMAIN", r, pkvm_guest_iommu_free_domain(v, T))
  /\ pc' = [pc EXCEPT ![v] = "idle"]
  /\ UNCHANGED <<ctxt, reset_handler, pageOwner, s2, device_spinlock, op, hostCall>>

(***************************************************************************)
(* MMIO requests of a guest (kvm/device.c)                                 *)
(***************************************************************************)
\* the stage-2 walk of pkvm_device_request_mmio; e is ELR_EL2, rewound when a
\* request is posted
pkvm_get_device_pa(vm, ipa, q, ec, e) ==
  LET l == kvm_pgtable_get_leaf(vm, ipa)
  IN IF l.ret # OK \/ ~l.pte.valid
     THEN IF ~pkvm_hyp_req_reserve(q)
          THEN [ret |-> "ENOMEM", pa |-> 0, reqs |-> q, exit_code |-> ec, elr |-> e]
          ELSE [ret |-> "ENODEV", pa |-> 0,
                reqs |-> Append(q, [type |-> "MAP", ipa |-> ipa, size |-> PAGE_SIZE]),
                exit_code |-> "HYP_REQ", elr |-> e - 4]
     ELSE [ret |-> OK,
           pa |-> l.pte.phys
                  + ((ipa % kvm_granule_size(l.pte.level)) \div PAGE_SIZE) * PAGE_SIZE,
           reqs |-> q, exit_code |-> ec, elr |-> e]

\* variant: the resources of every device are searched, whoever owns it
request_mmio_loop_any_owner(vm, token) ==
  \E i \in Devs : \E j \in 1 .. registered_devices[i].nr_resources :
     /\ token >= registered_devices[i].resources[j].base
     /\ token + PAGE_SIZE <= registered_devices[i].resources[j].base
                             + registered_devices[i].resources[j].size

\* the loops of pkvm_device_request_mmio: the page of token lies in a resource of a
\* device of vm
request_mmio_loop(vm, token) ==
  \E i \in Devs :
     /\ ctxt[i] = vm
     /\ \E j \in 1 .. registered_devices[i].nr_resources :
           /\ token >= registered_devices[i].resources[j].base
           /\ token + PAGE_SIZE <= registered_devices[i].resources[j].base
                                   + registered_devices[i].resources[j].size

pkvm_device_request_mmio(v, r) ==
  /\ run[v] = "guest"
  /\ pc[v] = "idle"
  /\ LET w == pkvm_get_device_pa(v, r.x1, hyp_reqs[v], "TRAP", HVC_ADDR + 4)
     IN IF w.ret # OK
        THEN /\ regs' = [regs EXCEPT ![v] = r]
             /\ elr' = [elr EXCEPT ![v] = w.elr]
             /\ exit_code' = [exit_code EXCEPT ![v] = w.exit_code]
             /\ run' = [run EXCEPT ![v] = "host"]
             /\ hyp_reqs' = [hyp_reqs EXCEPT ![v] = w.reqs]
             /\ last' = [last EXCEPT ![v] = [fn |-> "REQUEST_MMIO", entry |-> r,
                                             resume |-> FALSE, calls |-> <<>>, lock |-> 0]]
        ELSE /\ LockFree
             /\ regs' = [regs EXCEPT ![v] =
                           IF request_mmio_loop(v, w.pa)
                           THEN smccc_set_retval(r, SMCCC_RET_SUCCESS, w.pa, 0, 0)
                           ELSE smccc_set_retval(r, SMCCC_RET_INVALID_PARAMETER, 0, 0, 0)]
             /\ elr' = [elr EXCEPT ![v] = w.elr]
             /\ exit_code' = [exit_code EXCEPT ![v] = w.exit_code]
             /\ run' = [run EXCEPT ![v] = "guest"]
             /\ hyp_reqs' = [hyp_reqs EXCEPT ![v] = w.reqs]
             /\ last' = [last EXCEPT ![v] = [fn |-> "REQUEST_MMIO", entry |-> r,
                                             resume |-> TRUE, calls |-> <<>>, lock |-> 0]]
  /\ UNCHANGED <<regvars, s2, pool, mc, guest_domains, drv>>

(***************************************************************************)
(* The host                                                                *)
(***************************************************************************)
\* a host-side IOMMU operation: pkvm_devices_iommu_lock(id, endpoint, NULL) ...
host_iommu_op_begin(id, endpoint) ==
  /\ pc[HOST_CORE] = "idle"
  /\ LET l == pkvm_devices_iommu_lock(id, endpoint, NULL)
     IN /\ l.spin => LockFree
        /\ IF l.ret # OK
           THEN /\ hostCall' = [fn |-> "iommu_lock", ret |-> l.ret, resets |-> {}]
                /\ UNCHANGED <<device_spinlock, pc, op>>
           ELSE /\ hostCall' = [fn |-> "iommu_lock", ret |-> OK, resets |-> {}]
                /\ pc' = [pc EXCEPT ![HOST_CORE] = "iommu_op"]
                /\ op' = [op EXCEPT ![HOST_CORE] =
                            [kind |-> "host", id |-> id, endpoint |-> endpoint,
                             domain |-> 0, vm |-> NULL, held |-> l.held]]
                /\ device_spinlock' = IF l.held THEN HOST_CORE ELSE device_spinlock
  /\ UNCHANGED <<ctxt, reset_handler, pageOwner, s2, hvcvars>>

\* ... pkvm_devices_iommu_unlock(id, endpoint)
host_iommu_op_end ==
  /\ pc[HOST_CORE] = "iommu_op"
  /\ device_spinlock' = pkvm_devices_iommu_unlock(op[HOST_CORE].id, op[HOST_CORE].endpoint)
  /\ pc' = [pc EXCEPT ![HOST_CORE] = "idle"]
  /\ op' = [op EXCEPT ![HOST_CORE] = NoOp]
  /\ hostCall' = [fn |-> "iommu_unlock", ret |-> OK, resets |-> {}]
  /\ UNCHANGED <<ctxt, reset_handler, pageOwner, s2, hvcvars>>

\* the ipa pages a map request asks the host to back
ReqPages(q) ==
  {n \in IpaPages : \E i \in 1 .. Len(q) :
      /\ q[i].type = "MAP"
      /\ n * PAGE_SIZE >= q[i].ipa
      /\ n * PAGE_SIZE < q[i].ipa + q[i].size}

\* the host handles an ARM_EXCEPTION_HYP_REQ exit: it backs the requested pages,
\* tops up the memcache, clears the requests and re-enters the vCPU
handle_hyp_reqs(v) ==
  /\ run[v] = "host"
  /\ exit_code[v] = "HYP_REQ"
  /\ s2' = [s2 EXCEPT ![v] =
              [n \in IpaPages |->
                 IF n \in ReqPages(hyp_reqs[v]) /\ ~s2[v][n].valid
                 THEN [valid |-> TRUE, phys |-> GuestMemPa(v, n), level |-> 3]
                 ELSE s2[v][n]]]
  /\ mc' = [mc EXCEPT ![v] =
              IF (\E i \in 1 .. Len(hyp_reqs[v]) : hyp_reqs[v][i].type = "MEM")
                 /\ pool[v] + mc[v] < MaxPool
              THEN @ + 1 ELSE @]
  /\ hyp_reqs' = [hyp_reqs EXCEPT ![v] = <<>>]
  /\ run' = [run EXCEPT ![v] = "guest"]
  /\ UNCHANGED <<regvars, regs, elr, exit_code, pool, guest_domains, drv, last>>

\* the host handles a hypercall the hypervisor left to it and knows no handler for:
\* it answers NOT_SUPPORTED and re-enters the vCPU after the HVC
SMCCC_RET_NOT_SUPPORTED == -1
host_handle_hvc(v) ==
  /\ run[v] = "host"
  /\ exit_code[v] = "TRAP"
  /\ regs' = [regs EXCEPT ![v] = smccc_set_retval(@, SMCCC_RET_NOT_SUPPORTED, 0, 0, 0)]
  /\ run' = [run EXCEPT ![v] = "guest"]
  /\ UNCHANGED <<regvars, s2, elr, exit_code, hyp_reqs, pool, mc, guest_domains, drv, last>>

\* the host deposits a page in the vCPU's memcache before running it
topup_memcache(v) ==
  /\ run[v] = "guest"
  /\ pc[v] = "idle"
  /\ pool[v] + mc[v] < MaxPool
  /\ mc' = [mc EXCEPT ![v] = @ + 1]
  /\ UNCHANGED <<regvars, s2, regs, elr, exit_code, run, hyp_reqs, pool, guest_domains,
                 drv, last>>

\* the host backs guest memory on a stage-2 fault: one page, or pages 0 and 1 as a block
host_map_guest_page(vm, n) ==
  /\ ~s2[vm][n].valid
  /\ s2' = [s2 EXCEPT ![vm][n] = [valid |-> TRUE, phys |-> GuestMemPa(vm, n), level |-> 3]]
  /\ UNCHANGED <<regvars, hvcvars>>

host_map_guest_block(vm) ==
  /\ \A n \in 0 .. 1 : ~s2[vm][n].valid
  /\ s2' = [s2 EXCEPT ![vm] =
              [n \in IpaPages |-> IF n \in 0 .. 1
                                  THEN [valid |-> TRUE, phys |-> BlockPa(vm), level |-> 2]
                                  ELSE s2[vm][n]]]
  /\ UNCHANGED <<regvars, hvcvars>>

(***************************************************************************)
(* Initial state and the guest's calls                                     *)
(***************************************************************************)
InitRegistry ==
  /\ ctxt = [i \in Devs |-> NULL]
  /\ reset_handler = [i \in Devs |-> "NULL"]
  /\ pageOwner = [a \in DevPages |-> PKVM_ID_HOST]
  /\ s2 = [vm \in VMs |-> [n \in IpaPages |-> INVALID_PTE]]
  /\ device_spinlock = NoHolder
  /\ pc = [c \in Cores |-> "idle"]
  /\ op = [c \in Cores |-> NoOp]
  /\ hostCall = NoCall

NoLast == [fn |-> "none", entry |-> ZeroRegs, resume |-> TRUE, calls |-> <<>>, lock |-> 0]

InitVcpus ==
  /\ regs = [v \in VMs |-> ZeroRegs]
  /\ elr = [v \in VMs |-> HVC_ADDR + 4]
  /\ exit_code = [v \in VMs |-> "TRAP"]
  /\ run = [v \in VMs |-> "guest"]
  /\ hyp_reqs = [v \in VMs |-> <<>>]
  /\ pool = [v \in VMs |-> 0]
  /\ mc = [v \in VMs |-> 0]
  /\ drv = [domains |-> [d \in DomainIds |-> NULL],
            maps |-> [d \in DomainIds |-> [n \in IovaPages |-> NOMAP]],
            attach |-> {}]
  /\ last = [v \in VMs |-> NoLast]

Init ==
  /\ InitRegistry
  /\ InitVcpus
  /\ guest_domains = [i \in Words |-> {}]

\* the registers with which the guest executes its HVC: chosen freely for a new call,
\* whatever they are when ELR_EL2 was rewound onto the HVC
EntryRegs(v, fn, args) ==
  IF elr[v] = HVC_ADDR
  THEN IF regs[v].x0 = FuncId(fn) THEN {regs[v]} ELSE {}
  ELSE {[a EXCEPT !.x0 = FuncId(fn)] : a \in args}

\* the vCPUs that issue MAP, UNMAP, ATTACH_DEV and DETACH_DEV; those of the other
\* VMs only allocate and free domains
MappingVMs == {Min(VMs)}

\* a guest-half ID, and a host-half ID
DomainInputs == {GuestBase, 0}
\* MAP(domain, iova 0, ipa, pgsize, pgcount, READ | WRITE)
MapArgs ==
  {[ZeroRegs EXCEPT !.x1 = GuestBase, !.x4 = PAGE_SIZE, !.x5 = n, !.x6 = 3] :
     n \in 1 .. MaxPgCount}
  \cup {[ZeroRegs EXCEPT !.x1 = GuestBase, !.x3 = (NumIpaPages - 1) * PAGE_SIZE,
                         !.x4 = PAGE_SIZE, !.x5 = MaxPgCount, !.x6 = 3],
        [ZeroRegs EXCEPT !.x1 = GuestBase, !.x4 = 2 * PAGE_SIZE, !.x5 = 1, !.x6 = 3],
        [ZeroRegs EXCEPT !.x1 = 0, !.x4 = PAGE_SIZE, !.x5 = 1, !.x6 = 3]}
\* UNMAP(domain, iova 0, pgsize, pgcount)
UnmapArgs ==
  {[ZeroRegs EXCEPT !.x1 = GuestBase, !.x3 = PAGE_SIZE, !.x4 = MaxPgCount],
   [ZeroRegs EXCEPT !.x1 = GuestBase, !.x3 = 2 * PAGE_SIZE, !.x4 = 1]}
FeatureArgs == {[ZeroRegs EXCEPT !.x2 = f] : f \in {PVIOMMU_REQUEST_FEATURE_PGSZ_BITMAP, 153}}
FreeArgs == {[ZeroRegs EXCEPT !.x1 = d] : d \in DomainInputs}
\* FREE_DOMAIN of every ID of the ID space
AnyFreeArgs == {[ZeroRegs EXCEPT !.x1 = d] : d \in DomainIds}
\* ATTACH_DEV / DETACH_DEV(viommu 0, vsid, pasid 0, domain, pasid_bits 0)
DevArgs ==
  {[ZeroRegs EXCEPT !.x2 = vsid, !.x4 = GuestBase] : vsid \in 0 .. 2}
  \cup {[ZeroRegs EXCEPT !.x4 = 0]}

GuestMap == \E v \in MappingVMs : \E r \in EntryRegs(v, "MAP", MapArgs) : kvm_handle_pviommu_hvc(v, r)
GuestUnmap ==
  \E v \in MappingVMs : \E r \in EntryRegs(v, "UNMAP", UnmapArgs) : kvm_handle_pviommu_hvc(v, r)
GuestVersion ==
  \E v \in VMs : \E r \in EntryRegs(v, "VERSION", {ZeroRegs}) : kvm_handle_pviommu_hvc(v, r)
GuestGetFeature ==
  \E v \in VMs : \E r \in EntryRegs(v, "GET_FEATURE", FeatureArgs) :
     kvm_handle_pviommu_hvc(v, r)
AllocDomainBy(S) ==
  \E v \in S : \E r \in EntryRegs(v, "ALLOC_DOMAIN", {ZeroRegs}) :
     kvm_handle_pviommu_hvc(v, r)
FreeDomainBy(S) ==
  \E v \in S : \E r \in EntryRegs(v, "FREE_DOMAIN", FreeArgs) : kvm_handle_pviommu_hvc(v, r)
GuestAllocDomain == AllocDomainBy(VMs)
MapperFreeAnyDomain ==
  \E v \in MappingVMs : \E r \in EntryRegs(v, "FREE_DOMAIN", AnyFreeArgs) :
     kvm_handle_pviommu_hvc(v, r)
GuestFreeDomain == FreeDomainBy(VMs)
MapperAllocDomain == AllocDomainBy(MappingVMs)
MapperFreeDomain == FreeDomainBy(MappingVMs)
GuestAttachDev ==
  \E v \in MappingVMs : \E r \in EntryRegs(v, "ATTACH_DEV", DevArgs) :
     pkvm_guest_iommu_dev_begin(v, "ATTACH_DEV", r)
GuestDetachDev ==
  \E v \in MappingVMs : \E r \in EntryRegs(v, "DETACH_DEV", DevArgs) :
     pkvm_guest_iommu_dev_begin(v, "DETACH_DEV", r)
GuestIommuOpEnd == \E v \in VMs : pkvm_guest_iommu_dev_end(v)

HostIommuOpBegin == \E ep \in {1, registered_devices_nr} : host_iommu_op_begin(0, ep)
HostIommuOpEnd == host_iommu_op_end
HostHandleExit == \E v \in VMs : handle_hyp_reqs(v)
HostTopUp == \E v \in VMs : topup_memcache(v)
MapperTopUp == \E v \in MappingVMs : topup_memcache(v)
HostMapGuestPage == \E vm \in MappingVMs, n \in IpaPages : host_map_guest_page(vm, n)
HostMapGuestBlock == \E vm \in MappingVMs : host_map_guest_block(vm)

HostAssignMmio == \E pfn \in PfnInputs : pkvm_device_hyp_assign_mmio(pfn)
HostReclaimMmio == \E pfn \in PfnInputs : pkvm_device_reclaim_mmio(pfn)
HostMapGuestMmio ==
  \E vm \in VMs, pfn \in PfnInputs : pkvm_host_map_guest_mmio(vm, pfn, MmioGfn(pfn))
\* the same calls on the page of the device whose endpoint the VMs are routed to
RoutedPfns == {(MMIO_BASE \div PAGE_SIZE) + 1}
RoutedAssignMmio == \E pfn \in RoutedPfns : pkvm_device_hyp_assign_mmio(pfn)
RoutedReclaimMmio == \E pfn \in RoutedPfns : pkvm_device_reclaim_mmio(pfn)
RoutedMapGuestMmio ==
  \E vm \in VMs, pfn \in RoutedPfns : pkvm_host_map_guest_mmio(vm, pfn, MmioGfn(pfn))
Teardown == \E vm \in VMs : pkvm_devices_teardown(vm)
RegisterReset ==
  \E pfn \in ResetPfnInputs, cb \in {"cb_ok", "cb_fail"} :
     pkvm_device_register_reset(hyp_pfn_to_phys(pfn), cb)

\* MAP and UNMAP with a page size other than PAGE_SIZE, the other arguments varying
BadPgsizes == {0, 2 * PAGE_SIZE, PAGE_SIZE + 1}
BadMapArgs ==
  {[ZeroRegs EXCEPT !.x1 = d, !.x2 = PAGE_SIZE * n, !.x3 = PAGE_SIZE * n, !.x4 = sz,
                    !.x5 = n, !.x6 = 3] :
     d \in DomainInputs, sz \in BadPgsizes, n \in {0, MaxPgCount}}
BadUnmapArgs ==
  {[ZeroRegs EXCEPT !.x1 = d, !.x2 = PAGE_SIZE * n, !.x3 = sz, !.x4 = n] :
     d \in DomainInputs, sz \in BadPgsizes, n \in {0, MaxPgCount}}
GuestMapBadPgsize ==
  \E v \in MappingVMs : \E r \in EntryRegs(v, "MAP", BadMapArgs) : kvm_handle_pviommu_hvc(v, r)
GuestUnmapBadPgsize ==
  \E v \in MappingVMs : \E r \in EntryRegs(v, "UNMAP", BadUnmapArgs) :
     kvm_handle_pviommu_hvc(v, r)

\* UNMAP(domain, iova 0, PAGE_SIZE, pgcount) with pgcount so large that
\* pgsize * pgcount wraps around to 0 and to PAGE_SIZE
WrapUnmapArgs ==
  {[ZeroRegs EXCEPT !.x1 = GuestBase, !.x3 = PAGE_SIZE,
                    !.x4 = ((2 ^ REG_BITS) \div PAGE_SIZE) + k] : k \in 0 .. 1}
GuestUnmapWrap ==
  \E v \in MappingVMs : \E r \in EntryRegs(v, "UNMAP", WrapUnmapArgs) :
     kvm_handle_pviommu_hvc(v, r)

\* a function ID that is none of the dispatcher's, with arguments that would name a
\* live domain
UnknownFuncArgs ==
  {[ZeroRegs EXCEPT !.x0 = Len(FuncNames) + 2, !.x1 = d, !.x4 = PAGE_SIZE] :
     d \in DomainInputs}
GuestUnknownFunc ==
  \E v \in MappingVMs : \E r \in UnknownFuncArgs :
     elr[v] # HVC_ADDR /\ kvm_handle_pviommu_hvc(v, r)
HostHandleHvc == \E v \in VMs : host_handle_hvc(v)
MapperVersion ==
  \E v \in MappingVMs : \E r \in EntryRegs(v, "VERSION", {ZeroRegs}) :
     kvm_handle_pviommu_hvc(v, r)
MapperGetFeature ==
  \E v \in MappingVMs : \E r \in EntryRegs(v, "GET_FEATURE", FeatureArgs) :
     kvm_handle_pviommu_hvc(v, r)

\* the function ID of the MMIO request, outside the pvIOMMU range
RequestMmioId == Len(FuncNames) + 1
\* request_mmio(ipa): every ipa page, and one past the end of the guest's memory
RequestMmioArgs ==
  {[ZeroRegs EXCEPT !.x0 = RequestMmioId, !.x1 = n * PAGE_SIZE] : n \in 0 .. NumIpaPages}
GuestRequestMmio ==
  \E v \in MappingVMs :
     \E r \in (IF elr[v] = HVC_ADDR THEN {regs[v]} ELSE RequestMmioArgs) :
        pkvm_device_request_mmio(v, r)


\* GET_FEATURE(viommu, feature): the known selector and two unknown ones, for two
\* values of the reserved viommu argument
ProbeArgs ==
  {[ZeroRegs EXCEPT !.x1 = i, !.x2 = f] :
     i \in {0, GuestBase}, f \in {0, PVIOMMU_REQUEST_FEATURE_PGSZ_BITMAP, 153}}
MapperProbeFeature ==
  \E v \in MappingVMs : \E r \in EntryRegs(v, "GET_FEATURE", ProbeArgs) :
     kvm_handle_pviommu_hvc(v, r)

GuestDomainLock ==
  \E v \in VMs :
     \E r \in EntryRegs(v, "ALLOC_DOMAIN", {ZeroRegs}) \cup EntryRegs(v, "FREE_DOMAIN", FreeArgs) :
        pkvm_guest_domain_lock(v, r)
GuestDomainSection == \E v \in VMs : pkvm_guest_domain_section(v)

\* the guest driver's pviommu_map_pages (drivers/iommu/pkvm-pviommu.c): it repeats MAP
\* for the part not yet mapped until everything is mapped or a call returns an error.
\* The loop's variables are kept in the registers: the entry registers of the last
\* MAP and the r0, r1 it returned give iova, paddr and pgcount of the next one.
MapLoopArgs ==
  {[ZeroRegs EXCEPT !.x1 = GuestBase, !.x4 = PAGE_SIZE, !.x5 = n, !.x6 = 3] :
     n \in 1 .. MaxPgCount}

MapLoopDone(v) ==
  /\ last[v].fn = "MAP"
  /\ last[v].resume
  /\ \/ regs[v].x0 # 0
     \/ regs[v].x1 >= last[v].entry.x4 * last[v].entry.x5

pviommu_map_pages(v) ==
  /\ drv.domains[GuestBase] = v
  /\ IF elr[v] = HVC_ADDR
     THEN regs[v].x0 = FuncId("MAP") /\ kvm_handle_pviommu_hvc(v, regs[v])
     ELSE IF last[v].fn = "MAP"
     THEN /\ ~MapLoopDone(v)
          /\ LET e == last[v].entry
                 cur_mapped == regs[v].x1
             IN kvm_handle_pviommu_hvc(v, [e EXCEPT !.x2 = @ + cur_mapped,
                                                    !.x3 = @ + cur_mapped,
                                                    !.x5 = @ - (cur_mapped \div e.x4)])
     ELSE \E r \in MapLoopArgs : kvm_handle_pviommu_hvc(v, [r EXCEPT !.x0 = FuncId("MAP")])

DriverMapPages == \E v \in MappingVMs : pviommu_map_pages(v)
\* the driver allocates its domain before it maps
DriverAllocDomain ==
  /\ drv.domains[GuestBase] = NULL
  /\ MapperAllocDomain

\* the guest driver's pviommu_set_dev_pasid: ATTACH_DEV for every stream ID of the
\* device, in order, and on the first failure the loop "while (i--)" of DETACH_DEV.
\* fwspec_ids are the device's stream IDs (vsids of viommu 0): the first is routed to a
\* device, the second to an endpoint of no device, so its ATTACH_DEV fails.  The
\* loop's variables are kept in the registers: the entry registers of the last call
\* hold sid, and r0 tells whether it failed.
fwspec_ids == <<0, 1>>
SetDevPasid == 1

AttachRegs(i) ==
  [ZeroRegs EXCEPT !.x0 = FuncId("ATTACH_DEV"), !.x2 = fwspec_ids[i], !.x3 = SetDevPasid,
                   !.x4 = GuestBase]

IdIndex(sid) == CHOOSE i \in 1 .. Len(fwspec_ids) : fwspec_ids[i] = sid

pviommu_set_dev_pasid(v) ==
  /\ drv.domains[GuestBase] = v
  /\ IF elr[v] = HVC_ADDR
     THEN /\ regs[v].x0 = FuncId("ATTACH_DEV")
          /\ pkvm_guest_iommu_dev_begin(v, "ATTACH_DEV", regs[v])
     ELSE IF last[v].fn = "ALLOC_DOMAIN"
     THEN pkvm_guest_iommu_dev_begin(v, "ATTACH_DEV", AttachRegs(1))
     ELSE IF last[v].fn = "ATTACH_DEV" /\ last[v].resume
     THEN LET i == IdIndex(last[v].entry.x2)
          IN IF regs[v].x0 = 0
             THEN /\ i < Len(fwspec_ids)
                  /\ pkvm_guest_iommu_dev_begin(v, "ATTACH_DEV", AttachRegs(i + 1))
             \* "while (i--)": DETACH_DEV with sid, which still holds fwspec->ids[i],
             \* and PASID 0; with two stream IDs the loop body runs at most once
             ELSE /\ i > 1
                  /\ pkvm_guest_iommu_dev_begin(
                        v, "DETACH_DEV",
                        [ZeroRegs EXCEPT !.x0 = FuncId("DETACH_DEV"),
                                         !.x2 = last[v].entry.x2, !.x3 = 0,
                                         !.x4 = GuestBase])
     ELSE FALSE

DriverSetDevPasid == \E v \in MappingVMs : pviommu_set_dev_pasid(v)

\* the host declaring routes of a VM
ViommuIds == 0 .. 1
VsidIds == 0 .. 1

HostPviommuAttach ==
  \E vm \in VMs, p \in ViommuIds :
     /\ hostCall' = [fn |-> "pviommu_attach", ret |-> pkvm_pviommu_attach(vm, p),
                     resets |-> {}, vm |-> vm]
     /\ UNCHANGED <<ctxt, reset_handler, pageOwner, s2, device_spinlock, pc, op, hvcvars>>

HostPviommuAddVsid ==
  \E vm \in VMs, p \in ViommuIds, sid \in 0 .. registered_devices_nr, vsid \in VsidIds :
     /\ hostCall' = [fn |-> "pviommu_add_vsid",
                     ret |-> pkvm_pviommu_add_vsid(vm, p, 0, sid, vsid),
                     resets |-> {}, vm |-> vm]
     /\ UNCHANGED <<ctxt, reset_handler, pageOwner, s2, device_spinlock, pc, op, hvcvars>>

HostPviommuFinalise ==
  \E vm \in VMs :
     /\ hostCall' = [fn |-> "pviommu_finalise", ret |-> pkvm_pviommu_finalise(vm),
                     resets |-> {}, vm |-> vm]
     /\ UNCHANGED <<ctxt, reset_handler, pageOwner, s2, device_spinlock, pc, op, hvcvars>>

(***************************************************************************)
(* Specifications                                                          *)
(***************************************************************************)
\* the device registry under the host's calls
NextDev ==
  \/ HostAssignMmio
  \/ HostReclaimMmio
  \/ HostMapGuestMmio
  \/ Teardown
  \/ RegisterReset

SpecDev == Init /\ [][NextDev]_vars

\* IOMMU operations on devices racing with the host's registry calls
NextIommu ==
  \/ RoutedAssignMmio
  \/ RoutedReclaimMmio
  \/ RoutedMapGuestMmio
  \/ Teardown
  \/ RegisterReset
  \/ HostIommuOpBegin
  \/ HostIommuOpEnd
  \/ MapperAllocDomain
  \/ GuestAttachDev
  \/ GuestDetachDev
  \/ GuestIommuOpEnd
  \/ HostHandleExit

SpecIommu == Init /\ [][NextIommu]_vars

\* the hypercalls on domains and mappings
NextHvc ==
  \/ MapperAllocDomain
  \/ MapperFreeDomain
  \/ GuestMap
  \/ GuestUnmap
  \/ HostHandleExit
  \/ MapperTopUp
  \/ HostMapGuestPage
  \/ HostMapGuestBlock

SpecHvc == Init /\ [][NextHvc]_vars

\* the hypercalls that can run out of memory, with the host topping up
NextTopUp ==
  \/ MapperAllocDomain
  \/ GuestMap
  \/ GuestAttachDev
  \/ GuestIommuOpEnd
  \/ HostHandleExit
  \/ MapperTopUp
  \/ HostMapGuestPage
  \/ RoutedAssignMmio
  \/ RoutedMapGuestMmio

SpecTopUp == Init /\ [][NextTopUp]_vars

\* the allocator from every state of the bitmap
InitAllocId ==
  /\ InitRegistry
  /\ InitVcpus
  /\ guest_domains \in [Words -> SUBSET Bits]

NextAllocId ==
  \/ GuestAllocDomain
  \/ GuestFreeDomain
  \/ HostHandleExit
  \/ HostTopUp

SpecAllocId == InitAllocId /\ [][NextAllocId]_vars

\* one VM allocating domains and freeing any ID, from every state of the bitmap
NextRoundTrip ==
  \/ MapperAllocDomain
  \/ MapperFreeAnyDomain
  \/ HostHandleExit
  \/ MapperTopUp

SpecRoundTrip == InitAllocId /\ [][NextRoundTrip]_vars

\* guests asking for the MMIO pages of their devices while the host assigns devices
NextMmio ==
  \/ HostAssignMmio
  \/ HostMapGuestMmio
  \/ Teardown
  \/ GuestRequestMmio
  \/ HostHandleExit
  \/ HostMapGuestPage

SpecMmio == Init /\ [][NextMmio]_vars

\* MAP and UNMAP with a bad page size, among the calls that leave requests pending
NextPgsize ==
  \/ MapperAllocDomain
  \/ GuestMap
  \/ GuestMapBadPgsize
  \/ GuestUnmapBadPgsize
  \/ HostHandleExit
  \/ MapperTopUp
  \/ HostMapGuestPage

SpecPgsize == Init /\ [][NextPgsize]_vars

\* UNMAP of ranges of every size on domains with mappings
NextUnmap ==
  \/ MapperAllocDomain
  \/ GuestMap
  \/ GuestUnmap
  \/ GuestUnmapWrap
  \/ HostHandleExit
  \/ MapperTopUp
  \/ HostMapGuestPage

SpecUnmap == Init /\ [][NextUnmap]_vars

\* every hypercall of the ABI, and one outside it, by one vCPU
NextAbi ==
  \/ MapperVersion
  \/ MapperGetFeature
  \/ MapperAllocDomain
  \/ MapperFreeDomain
  \/ GuestMap
  \/ GuestUnmap
  \/ GuestAttachDev
  \/ GuestDetachDev
  \/ GuestIommuOpEnd
  \/ GuestUnknownFunc
  \/ HostHandleHvc
  \/ HostHandleExit
  \/ MapperTopUp
  \/ HostMapGuestPage
  \/ RoutedAssignMmio
  \/ RoutedMapGuestMmio

SpecAbi == Init /\ [][NextAbi]_vars

\* the host declaring routes while guests attach and detach routed endpoints
NextRoute ==
  \/ HostPviommuAttach
  \/ HostPviommuAddVsid
  \/ HostPviommuFinalise
  \/ RoutedAssignMmio
  \/ RoutedMapGuestMmio
  \/ MapperAllocDomain
  \/ GuestAttachDev
  \/ GuestDetachDev
  \/ GuestIommuOpEnd
  \/ HostHandleExit

SpecRoute == Init /\ [][NextRoute]_vars

\* the two locks taken by guests and the host on several cores
NextLocks ==
  \/ GuestDomainLock
  \/ GuestDomainSection
  \/ GuestAttachDev
  \/ GuestIommuOpEnd
  \/ HostIommuOpBegin
  \/ HostIommuOpEnd
  \/ RoutedAssignMmio
  \/ RoutedMapGuestMmio
  \/ HostHandleExit

SpecLocks == Init /\ [][NextLocks]_vars

\* the probe calls between the calls that allocate, map and run out of memory
NextProbe ==
  \/ MapperVersion
  \/ MapperProbeFeature
  \/ MapperAllocDomain
  \/ GuestMap
  \/ HostHandleExit
  \/ MapperTopUp
  \/ HostMapGuestPage

SpecProbe == Init /\ [][NextProbe]_vars

\* one run of the guest driver's map loop, the host servicing every exit
NextMapLoop ==
  \/ DriverAllocDomain
  \/ DriverMapPages
  \/ HostHandleExit
  \/ MapperTopUp
  \/ HostMapGuestPage

SpecMapLoop ==
  /\ Init
  /\ [][NextMapLoop]_vars
  /\ WF_vars(DriverMapPages)
  /\ WF_vars(HostHandleExit)

\* request_mmio from every state of the caller's request area: empty, partly used
\* and with no slot left
PendingReqs ==
  {<<>>} \cup {[i \in 1 .. n |-> [type |-> "MEM", ipa |-> 0, size |-> 0]] : n \in 1 .. MaxReqs}

InitReqArea ==
  /\ InitRegistry
  /\ regs = [v \in VMs |-> ZeroRegs]
  /\ elr = [v \in VMs |-> HVC_ADDR + 4]
  /\ exit_code = [v \in VMs |-> "TRAP"]
  /\ run = [v \in VMs |-> "guest"]
  /\ hyp_reqs \in {q \in [VMs -> PendingReqs] : \A v \in VMs \ MappingVMs : q[v] = <<>>}
  /\ pool = [v \in VMs |-> 0]
  /\ mc = [v \in VMs |-> 0]
  /\ drv = [domains |-> [d \in DomainIds |-> NULL],
            maps |-> [d \in DomainIds |-> [n \in IovaPages |-> NOMAP]],
            attach |-> {}]
  /\ last = [v \in VMs |-> NoLast]
  /\ guest_domains = [i \in Words |-> {}]

NextReqArea ==
  \/ RoutedAssignMmio
  \/ RoutedMapGuestMmio
  \/ GuestRequestMmio
  \/ HostHandleExit
  \/ HostMapGuestPage

SpecReqArea == InitReqArea /\ [][NextReqArea]_vars

\* one run of the guest driver's pviommu_set_dev_pasid on a device of the guest
NextSetDev ==
  \/ DriverAllocDomain
  \/ DriverSetDevPasid
  \/ GuestIommuOpEnd
  \/ HostHandleExit
  \/ MapperTopUp
  \/ RoutedAssignMmio
  \/ RoutedMapGuestMmio

SpecSetDev == Init /\ [][NextSetDev]_vars

(***************************************************************************)
(* Properties                                                              *)
(***************************************************************************)
SameGroup(d, e) == registered_devices[d].group_id = registered_devices[e].group_id
PagesOf(d) ==
  UNION {RangePages(registered_devices[d].resources[j].base,
                    registered_devices[d].resources[j].size) :
           j \in 1 .. registered_devices[d].nr_resources}

\* C1: group atomicity -- whenever a registered device d is owned by a VM, every
\* registered device of d's group is owned by that same VM.
C1_GroupAtomicity ==
  \A d \in Devs, e \in Devs :
     (ctxt[d] # NULL /\ SameGroup(d, e)) => ctxt[e] = ctxt[d]

\* C2: no device is mapped into two owners -- every MMIO page of a device that is
\* donated to a guest belongs to the VM recorded as the device's owner, and all
\* donated pages of one group belong to one VM.
C2_DonatedPagesFollowOwner ==
  \A d \in Devs, vm \in VMs :
     (\E a \in PagesOf(d) : pageOwner[a] = PKVM_ID_GUEST(vm)) =>
        /\ ctxt[d] = vm
        /\ \A e \in Devs, w \in VMs :
              (SameGroup(d, e) /\ \E b \in PagesOf(e) : pageOwner[b] = PKVM_ID_GUEST(w))
                 => w = vm

GuestHalf == GuestBase .. (KVM_IOMMU_MAX_DOMAINS - 1)
ValidLeaf(vm, ipa) == (ipa \div PAGE_SIZE) \in IpaPages /\ s2[vm][ipa \div PAGE_SIZE].valid
\* the page the stage-2 of vm translates ipa to
Stage2Pa(vm, ipa) ==
  LET pte == s2[vm][ipa \div PAGE_SIZE]
  IN IF pte.level = 3 THEN pte.phys
     ELSE pte.phys + ((ipa \div PAGE_SIZE) % 2) * PAGE_SIZE
MapStep(v) == \E r \in EntryRegs(v, "MAP", MapArgs) : kvm_handle_pviommu_hvc(v, r)
HasOom(calls) == \E i \in 1 .. Len(calls) : calls[i].oom
Installed(calls) == {i \in 1 .. Len(calls) : calls[i].res # 0}
OpDev(o) == pkvm_get_device_by_iommu(o.id, o.endpoint)

\* C3: every physical address a MAP passes to the driver's map_pages is what the
\* stage-2 walk of the caller's page table gives, in this invocation, for the ipa
\* of that page, and the leaf is valid; once a walk fails or finds no valid leaf,
\* map_pages is called neither for that page nor for a later one.
C3_MapWalksEveryPage ==
  [][\A v \in VMs : MapStep(v) =>
       LET L == last'[v]
           e == last'[v].entry
       IN /\ \A i \in 1 .. Len(L.calls) :
                /\ L.calls[i].fn = "map_pages"
                /\ L.calls[i].ipa = e.x3 + (i - 1) * e.x4
                /\ ValidLeaf(v, L.calls[i].ipa)
                /\ L.calls[i].b = Stage2Pa(v, L.calls[i].ipa)
          /\ \A k \in 0 .. (e.x5 - 1) :
                ~ValidLeaf(v, e.x3 + k * e.x4) => Len(L.calls) <= k]_vars

\* a MAP of two pages mapped the first from its walk and stopped at the second,
\* which has no valid leaf
C3_Witness ==
  \E v \in VMs :
     /\ last[v].fn = "MAP"
     /\ last[v].entry.x5 = 2
     /\ Len(last[v].calls) = 1
     /\ last[v].calls[1].res = PAGE_SIZE
     /\ last[v].calls[1].b = GuestMemPa(v, 0)
     /\ ~s2[v][1].valid
     /\ \E i \in 1 .. Len(hyp_reqs[v]) : hyp_reqs[v][i].type = "MAP"

C5_LockedOwnerStable ==
  /\ [](\A c \in Cores :
          (pc[c] = "iommu_op" /\ OpDev(op[c]) # NODEV) =>
             /\ device_spinlock = c
             /\ ctxt[OpDev(op[c])] = op[c].vm)
  /\ [][(\E c \in Cores : pc[c] = "iommu_op" /\ OpDev(op[c]) # NODEV)
          => UNCHANGED <<ctxt, reset_handler, pageOwner>>]_vars

\* a vCPU is inside ATTACH_DEV on the endpoint of device 1, which its VM owns
C5_Witness ==
  \E v \in VMs :
     /\ pc[v] = "iommu_op"
     /\ op[v].kind = "ATTACH_DEV"
     /\ OpDev(op[v]) = 1
     /\ device_spinlock = v
     /\ ctxt[1] = v

\* C6: while a guest domain ID is live (allocated and not freed), its bit is set in
\* the allocator bitmap.
C6_LiveIdsAreMarked ==
  \A d \in GuestHalf :
     drv.domains[d] # NULL =>
        ((d - GuestBase) % BITS_PER_LONG) \in guest_domains[(d - GuestBase) \div BITS_PER_LONG]

\* C7: for every state of the bitmap, the ID the allocator computes, and the ID a
\* successful ALLOC_DOMAIN returns in r1, lie in the guest half of the ID space.
C7_AllocInGuestHalf ==
  /\ pkvm_guest_iommu_alloc_id(guest_domains) >= 0
        => pkvm_guest_iommu_alloc_id(guest_domains) \in GuestHalf
  /\ \A v \in VMs :
        (last[v].fn = "ALLOC_DOMAIN" /\ last[v].resume
           /\ regs[v].x0 = SMCCC_RET_SUCCESS) => regs[v].x1 \in GuestHalf

\* ALLOC_DOMAIN succeeded while the first word of the bitmap is full
C7_Witness ==
  \E v \in VMs :
     /\ last[v].fn = "ALLOC_DOMAIN"
     /\ last[v].resume
     /\ regs[v].x0 = SMCCC_RET_SUCCESS
     /\ regs[v].x1 \in GuestHalf
     /\ guest_domains[0] = Bits

\* C8: every driver primitive a guest hypercall invokes with a domain ID gets an ID
\* of the guest half (never one of the host half).
C8_OnlyOwnGuestIds ==
  \A v \in VMs : \A i \in 1 .. Len(last[v].calls) :
     last[v].calls[i].fn \in {"free_domain", "map_pages", "unmap_pages",
                              "attach_dev", "detach_dev"}
        => last[v].calls[i].domain \in GuestHalf

C10_AttachGatedOnOwner ==
  /\ [][\A v \in VMs : \A r \in EntryRegs(v, "ATTACH_DEV", DevArgs) :
          (/\ pkvm_guest_iommu_dev_begin(v, "ATTACH_DEV", r)
           /\ pkvm_pviommu_route(v, r.x1, r.x2).ret = OK
           /\ pkvm_get_device_by_iommu(pkvm_pviommu_route(v, r.x1, r.x2).iommu,
                                       pkvm_pviommu_route(v, r.x1, r.x2).sid) # NODEV)
          => IF ctxt[pkvm_get_device_by_iommu(pkvm_pviommu_route(v, r.x1, r.x2).iommu,
                                              pkvm_pviommu_route(v, r.x1, r.x2).sid)] # v
             THEN /\ pc'[v] = "idle"
                  /\ run'[v] = "guest"
                  /\ regs'[v].x0 = SMCCC_RET_INVALID_PARAMETER
                  /\ last'[v].calls = <<>>
                  /\ drv' = drv
                  /\ device_spinlock' = device_spinlock
             ELSE /\ pc'[v] = "iommu_op"
                  /\ device_spinlock' = v]_vars
  /\ [][\A v \in VMs :
          (pkvm_guest_iommu_dev_end(v) /\ op[v].kind = "ATTACH_DEV")
          => /\ device_spinlock = v
             /\ ctxt[OpDev(op[v])] = v
             /\ last'[v].calls # <<>>
             /\ last'[v].calls[Len(last'[v].calls)].fn = "attach_dev"]_vars

\* an ATTACH_DEV on the endpoint of device 1, owned by another VM, was refused
C10_Witness ==
  \E v \in VMs :
     /\ pc[v] = "idle"
     /\ last[v].fn = "ATTACH_DEV"
     /\ last[v].entry.x2 = 0
     /\ regs[v].x0 = SMCCC_RET_INVALID_PARAMETER
     /\ last[v].calls = <<>>
     /\ ctxt[1] \in VMs \ {v}

RouteOf(v, r) == pkvm_pviommu_route(v, r.x1, r.x2)
RoutedDev(v, r) == pkvm_get_device_by_iommu(RouteOf(v, r).iommu, RouteOf(v, r).sid)

\* C11 (as the code has it): pkvm_devices_iommu_lock on an endpoint of a registered
\* device succeeds exactly when the device's owner is the caller (NULL for the host,
\* the VM for a vCPU) and then returns with device_spinlock held by the caller until
\* the matching unlock; a refusal leaves the lock as it was.  On an endpoint of no
\* registered device the host succeeds without taking the lock and a vCPU is
\* refused; the matching unlock then releases nothing.  The lock is held only by a
\* core inside such an operation.
C11_LockGrantAndBalance ==
  /\ [](/\ \A c \in Cores :
            pc[c] = "iommu_op" =>
               IF OpDev(op[c]) # NODEV
               THEN device_spinlock = c /\ ctxt[OpDev(op[c])] = c
               ELSE c = HOST_CORE /\ device_spinlock # c
        /\ device_spinlock # NoHolder =>
              /\ pc[device_spinlock] = "iommu_op"
              /\ OpDev(op[device_spinlock]) # NODEV)
  /\ [][\A ep \in {1, registered_devices_nr} :
          host_iommu_op_begin(0, ep) =>
             LET dev == pkvm_get_device_by_iommu(0, ep)
             IN IF dev = NODEV \/ ctxt[dev] = NULL
                THEN /\ pc'[HOST_CORE] = "iommu_op"
                     /\ hostCall'.ret = OK
                     /\ device_spinlock' = IF dev # NODEV THEN HOST_CORE
                                           ELSE device_spinlock
                ELSE /\ pc'[HOST_CORE] = "idle"
                     /\ hostCall'.ret = "EPERM"
                     /\ device_spinlock' = device_spinlock]_vars
  /\ [][\A v \in VMs, fn \in {"ATTACH_DEV", "DETACH_DEV"} :
          \A r \in EntryRegs(v, fn, DevArgs) :
             (pkvm_guest_iommu_dev_begin(v, fn, r) /\ RouteOf(v, r).ret = OK) =>
                IF RoutedDev(v, r) # NODEV /\ ctxt[RoutedDev(v, r)] = v
                THEN /\ pc'[v] = "iommu_op"
                     /\ device_spinlock' = v
                ELSE /\ pc'[v] = "idle"
                     /\ regs'[v].x0 = SMCCC_RET_INVALID_PARAMETER
                     /\ device_spinlock' = device_spinlock]_vars
  /\ [][\A c \in Cores :
          (pc[c] = "iommu_op" /\ pc'[c] = "idle") =>
             device_spinlock' = IF OpDev(op[c]) # NODEV THEN NoHolder
                                ELSE device_spinlock]_vars

\* the host is inside an operation on an endpoint of no registered device, without
\* the lock, while a vCPU holds the lock for an operation on its own device
C11_Witness ==
  /\ pc[HOST_CORE] = "iommu_op"
  /\ OpDev(op[HOST_CORE]) = NODEV
  /\ \E v \in VMs : device_spinlock = v /\ pc[v] = "iommu_op"

\* C11 (as stated): every successful return of the lock call leaves
\* device_spinlock held by the caller until the matching unlock.
C11_SuccessHoldsLock ==
  \A c \in Cores : pc[c] = "iommu_op" => device_spinlock = c

UnmapStep(v) == \E r \in EntryRegs(v, "UNMAP", UnmapArgs) : kvm_handle_pviommu_hvc(v, r)

\* C12: a MAP or UNMAP with pgsize = PAGE_SIZE that finds a request pending in the
\* vCPU's request area on entry rewinds ELR_EL2 by one instruction and leaves for
\* the host with HYP_REQ; it posts no request (no stage-2 walk), calls nothing in
\* the driver and writes no guest register.
C12_StaleRequestExits ==
  [][\A v \in VMs :
       (/\ hyp_reqs[v] # <<>>
        /\ \/ MapStep(v) /\ last'[v].entry.x4 = PAGE_SIZE
           \/ UnmapStep(v) /\ last'[v].entry.x3 = PAGE_SIZE)
       => /\ elr'[v] = (HVC_ADDR + 4) - 4
          /\ exit_code'[v] = "HYP_REQ"
          /\ run'[v] = "host"
          /\ ~last'[v].resume
          /\ regs'[v] = last'[v].entry
          /\ last'[v].calls = <<>>
          /\ hyp_reqs'[v] = hyp_reqs[v]
          /\ drv' = drv
          /\ pool'[v] = pool[v] + mc[v]]_vars

\* an UNMAP entered with a request pending left for the host
C12_Witness ==
  \E v \in VMs :
     /\ last[v].fn = "UNMAP"
     /\ last[v].entry.x3 = PAGE_SIZE
     /\ run[v] = "host"
     /\ elr[v] = HVC_ADDR
     /\ hyp_reqs[v] # <<>>
     /\ last[v].calls = <<>>

AllocStep(v) ==
  \E r \in EntryRegs(v, "ALLOC_DOMAIN", {ZeroRegs}) : kvm_handle_pviommu_hvc(v, r)
AttachBegin(v) ==
  \E r \in EntryRegs(v, "ATTACH_DEV", DevArgs) : pkvm_guest_iommu_dev_begin(v, "ATTACH_DEV", r)
AttachEnd(v) == pkvm_guest_iommu_dev_end(v) /\ op[v].kind = "ATTACH_DEV"

\* C13: every handler that may allocate (ALLOC_DOMAIN, ATTACH_DEV, MAP) (a) entered
\* with a request pending on the vCPU does nothing but rewind ELR_EL2 and leave for
\* the host, and (b) when its allocation fails leaves a request posted, rewinds
\* ELR_EL2 and leaves for the host.
C13_TwoStepContract ==
  [][\A v \in VMs :
       /\ (/\ hyp_reqs[v] # <<>>
           /\ \/ AllocStep(v)
              \/ AttachBegin(v)
              \/ MapStep(v) /\ last'[v].entry.x4 = PAGE_SIZE)
          => /\ run'[v] = "host"
             /\ elr'[v] = HVC_ADDR
             /\ exit_code'[v] = "HYP_REQ"
             /\ pc'[v] = "idle"
             /\ last'[v].calls = <<>>
       /\ ((AllocStep(v) \/ AttachEnd(v) \/ MapStep(v)) /\ HasOom(last'[v].calls))
          => /\ hyp_reqs'[v] # <<>>
             /\ run'[v] = "host"
             /\ elr'[v] = HVC_ADDR
             /\ exit_code'[v] = "HYP_REQ"]_vars

\* a MAP step that went into the loop: pgsize accepted, no request pending on entry
MapLoopStep(v) ==
  /\ MapStep(v)
  /\ last'[v].entry.x4 = PAGE_SIZE
  /\ hyp_reqs[v] = <<>>

\* C14: a MAP whose stage-2 walk finds no valid leaf for the current ipa enqueues a
\* MAP request for that ipa, rewinds ELR_EL2 by one instruction and leaves for the
\* host with HYP_REQ instead of resuming the guest.
C14_MapFaultExits ==
  [][\A v \in VMs :
       LET L == last'[v]
           e == last'[v].entry
           fault == e.x3 + Len(L.calls) * e.x4
       IN (/\ MapLoopStep(v)
           /\ Len(L.calls) < e.x5
           /\ \A i \in 1 .. Len(L.calls) : L.calls[i].res # 0
           /\ ~ValidLeaf(v, fault))
          => /\ \E i \in 1 .. Len(hyp_reqs'[v]) :
                   hyp_reqs'[v][i].type = "MAP" /\ hyp_reqs'[v][i].ipa = fault
             /\ elr'[v] = HVC_ADDR
             /\ exit_code'[v] = "HYP_REQ"
             /\ run'[v] = "host"]_vars

IdMarked(gd, d) ==
  ((d - GuestBase) % BITS_PER_LONG) \in gd[(d - GuestBase) \div BITS_PER_LONG]
IdSpaceFull(gd) == \A w \in Words : gd[w] = Bits

\* C16: an ALLOC_DOMAIN with the ID space full returns INVALID_PARAMETER without a
\* driver call; otherwise it calls the driver's alloc_domain once, and: on
\* out-of-memory the ID is free in the bitmap, the allocator lock is released,
\* ELR_EL2 is rewound and the handler leaves with HYP_REQ and the registers as they
\* were; on another failure the ID is free and r0 = INVALID_PARAMETER; on success
\* r0 = 0, r1 = the ID and the domain is live.
C16_AllocDomainOutcomes ==
  [][\A v \in VMs :
       AllocStep(v) =>
          LET L == last'[v]
          IN IF IdSpaceFull(guest_domains)
             THEN /\ L.calls = <<>>
                  /\ drv' = drv
                  /\ run'[v] = "guest"
                  /\ regs'[v].x0 = SMCCC_RET_INVALID_PARAMETER
             ELSE /\ Len(L.calls) = 1
                  /\ L.calls[1].fn = "alloc_domain"
                  /\ L.calls[1].domain \in GuestHalf
                  /\ CASE L.calls[1].res = "ENOMEM" ->
                            /\ ~IdMarked(guest_domains', L.calls[1].domain)
                            /\ L.lock = 0
                            /\ elr'[v] = HVC_ADDR
                            /\ exit_code'[v] = "HYP_REQ"
                            /\ run'[v] = "host"
                            /\ regs'[v] = L.entry
                            /\ drv' = drv
                       [] L.calls[1].res = OK ->
                            /\ run'[v] = "guest"
                            /\ elr'[v] = HVC_ADDR + 4
                            /\ regs'[v].x0 = SMCCC_RET_SUCCESS
                            /\ regs'[v].x1 = L.calls[1].domain
                            /\ drv'.domains[L.calls[1].domain] = v
                            /\ L.lock = 0
                       [] OTHER ->
                            /\ ~IdMarked(guest_domains', L.calls[1].domain)
                            /\ run'[v] = "guest"
                            /\ elr'[v] = HVC_ADDR + 4
                            /\ regs'[v].x0 = SMCCC_RET_INVALID_PARAMETER
                            /\ drv' = drv
                            /\ L.lock = 0]_vars

\* an ALLOC_DOMAIN ran out of memory in the driver and left for the host
C16_Witness ==
  \E v \in VMs :
     /\ last[v].fn = "ALLOC_DOMAIN"
     /\ HasOom(last[v].calls)
     /\ run[v] = "host"
     /\ elr[v] = HVC_ADDR
     /\ last[v].lock = 0

FreeStep(v) ==
  \E r \in EntryRegs(v, "FREE_DOMAIN", AnyFreeArgs) : kvm_handle_pviommu_hvc(v, r)
\* the bitmap gd with the bit of guest domain ID d cleared and nothing else changed
WithoutId(gd, d) ==
  [w \in Words |->
     IF d \in GuestHalf /\ w = (d - GuestBase) \div BITS_PER_LONG
     THEN gd[w] \ {(d - GuestBase) % BITS_PER_LONG} ELSE gd[w]]

\* C17: FREE_DOMAIN(d) of a live domain d without mappings or attached devices (as
\* after ALLOC_DOMAIN returned d) returns r0 = 0; a FREE_DOMAIN that returns 0
\* clears exactly the bitmap bit of d and leaves d free in the bitmap and in the
\* driver; a FREE_DOMAIN(d) of a domain that is not live (a second FREE_DOMAIN), or
\* any the driver refuses, returns r0 = INVALID_PARAMETER and leaves the bitmap
\* unchanged.
C17_AllocFreeRoundTrip ==
  [][\A v \in VMs :
       FreeStep(v) =>
          LET L == last'[v]
              d == last'[v].entry.x1
          IN /\ Len(L.calls) = 1
             /\ L.calls[1].fn = "free_domain"
             /\ L.calls[1].domain = d
             /\ run'[v] = "guest"
             /\ (/\ drv.domains[d] # NULL
                 /\ \A n \in IovaPages : drv.maps[d][n] = NOMAP
                 /\ \A a \in drv.attach : a[3] # d) => regs'[v].x0 = SMCCC_RET_SUCCESS
             /\ drv.domains[d] = NULL => regs'[v].x0 = SMCCC_RET_INVALID_PARAMETER
             /\ IF L.calls[1].res = OK
                THEN /\ regs'[v].x0 = SMCCC_RET_SUCCESS
                     /\ guest_domains' = WithoutId(guest_domains, d)
                     /\ drv'.domains[d] = NULL
                     /\ d \in GuestHalf => ~IdMarked(guest_domains', d)
                ELSE /\ regs'[v].x0 = SMCCC_RET_INVALID_PARAMETER
                     /\ guest_domains' = guest_domains
                     /\ drv' = drv]_vars

\* a FREE_DOMAIN of a guest ID returned 0 and another bit of the ID's word is
\* still set
C17_Witness ==
  \E v \in VMs :
     /\ last[v].fn = "FREE_DOMAIN"
     /\ last[v].entry.x1 \in GuestHalf
     /\ regs[v].x0 = SMCCC_RET_SUCCESS
     /\ drv.domains[last[v].entry.x1] = NULL
     /\ guest_domains[(last[v].entry.x1 - GuestBase) \div BITS_PER_LONG] # {}

GroupOf(d) == {e \in Devs : SameGroup(d, e)}
\* every member of d's group is unowned, has all its pages owned by the hypervisor
\* and resets without error
GroupReady(d) ==
  \A e \in GroupOf(d) :
     /\ ctxt[e] = NULL
     /\ \A a \in PagesOf(e) : pageOwner[a] = PKVM_ID_HYP
     /\ reset_handler[e] # "cb_fail"

\* C18: pkvm_host_map_guest_mmio(vm, pfn, gfn) returns -ENODEV and changes nothing
\* when pfn is in no registered device; returns -EPERM and changes nothing when the
\* device is owned by another VM; for an unowned device it makes the VM the owner
\* of every member of the group when every member is unowned with all its pages
\* hyp-owned, and otherwise fails, donates nothing and gives the VM no member of
\* the group; a page changes owner only in a call that returns 0, it is the page
\* of pfn, it goes to the calling VM and the device's owner is then that VM.
C18_MapGuestMmioGated ==
  [][\A vm \in VMs, pfn \in PfnInputs :
       pkvm_host_map_guest_mmio(vm, pfn, MmioGfn(pfn)) =>
          LET a == hyp_pfn_to_phys(pfn)
              dev == pkvm_get_device(hyp_pfn_to_phys(pfn))
          IN /\ hostCall'.fn = "map_guest_mmio"
             /\ dev = NODEV =>
                   /\ hostCall'.ret = "ENODEV"
                   /\ UNCHANGED <<ctxt, pageOwner, s2>>
             /\ dev # NODEV =>
                   /\ ctxt[dev] \notin {NULL, vm} =>
                         /\ hostCall'.ret = "EPERM"
                         /\ UNCHANGED <<ctxt, pageOwner, s2>>
                   /\ (ctxt[dev] = NULL /\ ~GroupReady(dev)) =>
                         /\ hostCall'.ret # OK
                         /\ UNCHANGED <<pageOwner, s2>>
                         /\ \A e \in GroupOf(dev) : ctxt'[e] = ctxt[e]
                   /\ (ctxt[dev] = NULL /\ GroupReady(dev)) =>
                         \A e \in GroupOf(dev) : ctxt'[e] = vm
                   /\ hostCall'.ret = OK =>
                         /\ ctxt'[dev] = vm
                         /\ pageOwner[a] = PKVM_ID_HYP
                         /\ pageOwner' = [pageOwner EXCEPT ![a] = PKVM_ID_GUEST(vm)]
                         /\ s2'[vm][MmioGfn(pfn)].valid
                         /\ s2'[vm][MmioGfn(pfn)].phys = a
                   /\ hostCall'.ret # OK => UNCHANGED <<pageOwner, s2>>]_vars

\* a call on a device owned by a VM, whose page that VM holds, was refused
C18_Witness ==
  /\ hostCall.fn = "map_guest_mmio"
  /\ hostCall.ret = "EPERM"
  /\ \E d \in Devs : \E vm \in VMs :
        /\ ctxt[d] = vm
        /\ \A a \in PagesOf(d) : pageOwner[a] = PKVM_ID_GUEST(vm)
        /\ \A e \in GroupOf(d) : ctxt[e] = vm

\* C19: pkvm_device_hyp_assign_mmio(pfn) and pkvm_device_reclaim_mmio(pfn) return
\* -ENODEV when pfn is in no registered device and -EBUSY when the device is owned
\* by a VM, without changing the owner of any page; for a device no VM owns they
\* move exactly the page of pfn from the host to the hypervisor (resp. from the
\* hypervisor to the host) when it is in the state to leave, and fail without a
\* change otherwise.  No call changes a device's owner.
C19_HostMmioRefusedWhileOwned ==
  [][\A pfn \in PfnInputs :
       LET a == hyp_pfn_to_phys(pfn)
           dev == pkvm_get_device(hyp_pfn_to_phys(pfn))
       IN /\ pkvm_device_hyp_assign_mmio(pfn) =>
               /\ hostCall'.fn = "hyp_assign_mmio"
               /\ UNCHANGED <<ctxt, s2>>
               /\ IF dev = NODEV
                  THEN hostCall'.ret = "ENODEV" /\ pageOwner' = pageOwner
                  ELSE IF ctxt[dev] # NULL
                  THEN hostCall'.ret = "EBUSY" /\ pageOwner' = pageOwner
                  ELSE IF pageOwner[a] = PKVM_ID_HOST
                  THEN /\ hostCall'.ret = OK
                       /\ pageOwner' = [pageOwner EXCEPT ![a] = PKVM_ID_HYP]
                  ELSE hostCall'.ret \notin {OK, "ENODEV", "EBUSY"} /\ pageOwner' = pageOwner
          /\ pkvm_device_reclaim_mmio(pfn) =>
               /\ hostCall'.fn = "reclaim_mmio"
               /\ UNCHANGED <<ctxt, s2>>
               /\ IF dev = NODEV
                  THEN hostCall'.ret = "ENODEV" /\ pageOwner' = pageOwner
                  ELSE IF ctxt[dev] # NULL
                  THEN hostCall'.ret = "EBUSY" /\ pageOwner' = pageOwner
                  ELSE IF pageOwner[a] = PKVM_ID_HYP
                  THEN /\ hostCall'.ret = OK
                       /\ pageOwner' = [pageOwner EXCEPT ![a] = PKVM_ID_HOST]
                  ELSE hostCall'.ret \notin {OK, "ENODEV", "EBUSY"} /\ pageOwner' = pageOwner]_vars

\* a reclaim was refused with -EBUSY while a VM owns a device whose page the
\* hypervisor still holds
C19_Witness ==
  /\ hostCall.fn = "reclaim_mmio"
  /\ hostCall.ret = "EBUSY"
  /\ \E d \in Devs :
        /\ ctxt[d] # NULL
        /\ \A a \in PagesOf(d) : pageOwner[a] = PKVM_ID_HYP

\* C20: after pkvm_devices_teardown(vm) no registered device is owned by vm; every
\* device that vm owned was reset, is unowned and has all its MMIO pages owned by
\* the host; every other device keeps its owner and the owners of its pages and is
\* not reset; no reset handler changes.
C20_TeardownFrame ==
  [][\A vm \in VMs :
       pkvm_devices_teardown(vm) =>
          /\ hostCall'.fn = "teardown"
          /\ reset_handler' = reset_handler
          /\ \A d \in Devs :
                /\ ctxt'[d] # vm
                /\ IF ctxt[d] = vm
                   THEN /\ d \in hostCall'.resets
                        /\ ctxt'[d] = NULL
                        /\ \A a \in PagesOf(d) : pageOwner'[a] = PKVM_ID_HOST
                   ELSE /\ d \notin hostCall'.resets
                        /\ ctxt'[d] = ctxt[d]
                        /\ \A a \in PagesOf(d) : pageOwner'[a] = pageOwner[a]]_vars

\* a VM that owned a device was torn down while the other VM owns a device whose
\* page it holds
C20_Witness ==
  /\ hostCall.fn = "teardown"
  /\ hostCall.resets # {}
  /\ \A d \in hostCall.resets :
        ctxt[d] = NULL /\ \A a \in PagesOf(d) : pageOwner[a] = PKVM_ID_HOST
  /\ \E e \in Devs : \E w \in VMs :
        ctxt[e] = w /\ \A a \in PagesOf(e) : pageOwner[a] = PKVM_ID_GUEST(w)


RequestMmioStep(v) ==
  \E r \in (IF elr[v] = HVC_ADDR THEN {regs[v]} ELSE RequestMmioArgs) :
     pkvm_device_request_mmio(v, r)
\* the page at pa lies inside one resource of device d
PageInDevice(pa, d) ==
  \E j \in 1 .. registered_devices[d].nr_resources :
     /\ pa >= registered_devices[d].resources[j].base
     /\ pa + PAGE_SIZE <= registered_devices[d].resources[j].base
                          + registered_devices[d].resources[j].size

\* C21: a request_mmio whose stage-2 walk succeeds returns to the guest; it returns
\* SUCCESS with the resolved PA in r1 exactly when the whole page of that PA lies
\* inside one resource of a device whose owner is the calling VM at that moment, and
\* INVALID_PARAMETER with r1 = 0 in every other case, so the PA of a page of a device
\* owned by the host or by another VM is never returned.
C21_RequestMmioOwnedOnly ==
  [][\A v \in VMs :
       (RequestMmioStep(v) /\ ValidLeaf(v, last'[v].entry.x1)) =>
          LET pa == Stage2Pa(v, last'[v].entry.x1)
          IN /\ run'[v] = "guest"
             /\ elr'[v] = HVC_ADDR + 4
             /\ UNCHANGED <<ctxt, pageOwner, s2, hyp_reqs, device_spinlock>>
             /\ IF \E d \in Devs : ctxt[d] = v /\ PageInDevice(pa, d)
                THEN /\ regs'[v].x0 = SMCCC_RET_SUCCESS
                     /\ regs'[v].x1 = pa
                ELSE /\ regs'[v].x0 = SMCCC_RET_INVALID_PARAMETER
                     /\ regs'[v].x1 = 0]_vars

\* a request_mmio on a device page still in the caller's stage-2 was refused because
\* the device is no longer recorded as the caller's
C21_Witness ==
  \E v \in VMs : \E d \in Devs :
     /\ last[v].fn = "REQUEST_MMIO"
     /\ run[v] = "guest"
     /\ ValidLeaf(v, last[v].entry.x1)
     /\ PageInDevice(Stage2Pa(v, last[v].entry.x1), d)
     /\ ctxt[d] # v
     /\ regs[v].x0 = SMCCC_RET_INVALID_PARAMETER
     /\ regs[v].x1 = 0


\* C22: an ATTACH_DEV or DETACH_DEV for a (viommu, vsid) without a route in the
\* caller's table returns r0 = INVALID_PARAMETER to the guest and nothing else
\* happens: no driver call, no request, ELR_EL2 and the exit code as the trap left
\* them, no lock taken.  With a route to a device of the caller the handler goes on
\* with the routed (iommu, sid), and every driver attach_dev / detach_dev call is
\* made with the routed (iommu, sid) of the call's (viommu, vsid).
C22_UnroutedRefusedRoutedIds ==
  /\ [][\A v \in VMs, fn \in {"ATTACH_DEV", "DETACH_DEV"} :
          \A r \in EntryRegs(v, fn, DevArgs) :
             pkvm_guest_iommu_dev_begin(v, fn, r) =>
                IF RouteOf(v, r).ret # OK
                THEN /\ regs'[v].x0 = SMCCC_RET_INVALID_PARAMETER
                     /\ run'[v] = "guest"
                     /\ pc'[v] = "idle"
                     /\ last'[v].calls = <<>>
                     /\ elr'[v] = HVC_ADDR + 4
                     /\ exit_code'[v] = "TRAP"
                     /\ UNCHANGED <<drv, hyp_reqs, guest_domains, regvars, s2>>
                ELSE (RoutedDev(v, r) # NODEV /\ ctxt[RoutedDev(v, r)] = v) =>
                        /\ pc'[v] = "iommu_op"
                        /\ op'[v].id = RouteOf(v, r).iommu
                        /\ op'[v].endpoint = RouteOf(v, r).sid]_vars
  /\ [][\A v \in VMs :
          pkvm_guest_iommu_dev_end(v) =>
             LET L == last'[v]
                 c == last'[v].calls[Len(last'[v].calls)]
             IN /\ Len(L.calls) = 1
                /\ c.fn = IF L.fn = "ATTACH_DEV" THEN "attach_dev" ELSE "detach_dev"
                /\ RouteOf(v, L.entry).ret = OK
                /\ c.a = RouteOf(v, L.entry).iommu
                /\ c.b = RouteOf(v, L.entry).sid]_vars

\* an ATTACH_DEV for a vsid without a route was refused while the caller owns the
\* device its routed vsid leads to
C22_Witness ==
  \E v \in VMs :
     /\ last[v].fn = "ATTACH_DEV"
     /\ RouteOf(v, last[v].entry).ret # OK
     /\ regs[v].x0 = SMCCC_RET_INVALID_PARAMETER
     /\ last[v].calls = <<>>
     /\ pc[v] = "idle"
     /\ run[v] = "guest"
     /\ ctxt[1] = v


BadPgsizeStep(v) ==
  \/ \E r \in EntryRegs(v, "MAP", BadMapArgs \cup MapArgs) :
        kvm_handle_pviommu_hvc(v, r) /\ r.x4 # PAGE_SIZE
  \/ \E r \in EntryRegs(v, "UNMAP", BadUnmapArgs) :
        kvm_handle_pviommu_hvc(v, r) /\ r.x3 # PAGE_SIZE

\* C23: a MAP or UNMAP whose pgsize is not PAGE_SIZE returns to the guest at once
\* with r0 = INVALID_PARAMETER and r1 = 0, whatever the other arguments and whether
\* or not a request is pending: no stage-2 walk and no request posted, no driver
\* call, ELR_EL2 and the exit code as the trap left them.
C23_BadPgsizeRefused ==
  [][\A v \in VMs :
       BadPgsizeStep(v) =>
          /\ regs'[v].x0 = SMCCC_RET_INVALID_PARAMETER
          /\ regs'[v].x1 = 0
          /\ run'[v] = "guest"
          /\ last'[v].resume
          /\ last'[v].calls = <<>>
          /\ elr'[v] = HVC_ADDR + 4
          /\ exit_code'[v] = "TRAP"
          /\ UNCHANGED <<hyp_reqs, drv, s2, guest_domains>>]_vars

\* a MAP with a bad pgsize was refused while a request is pending on the vCPU and
\* a page is mapped in the domain
C23_Witness ==
  \E v \in VMs :
     /\ last[v].fn = "MAP"
     /\ last[v].entry.x4 \notin {PAGE_SIZE, 0}
     /\ last[v].entry.x5 = MaxPgCount
     /\ regs[v].x0 = SMCCC_RET_INVALID_PARAMETER
     /\ regs[v].x1 = 0
     /\ run[v] = "guest"
     /\ hyp_reqs[v] # <<>>
     /\ \E d \in DomainIds, n \in IovaPages : drv.maps[d][n] # NOMAP


\* an UNMAP step that reaches the driver: pgsize accepted, no request pending on entry
UnmapCallStep(v) ==
  /\ \E r \in EntryRegs(v, "UNMAP", UnmapArgs \cup WrapUnmapArgs) :
        kvm_handle_pviommu_hvc(v, r)
  /\ last'[v].entry.x3 = PAGE_SIZE
  /\ hyp_reqs[v] = <<>>

\* C24: an UNMAP with pgsize = PAGE_SIZE and no request pending on entry calls the
\* driver's unmap_pages exactly once and returns its byte count in r1; r0 is
\* INVALID_PARAMETER if and only if that count is less than the pgsize * pgcount
\* bytes requested and no request is pending on the vCPU after the call, and
\* SUCCESS otherwise, also for a pgcount whose product with pgsize does not fit a
\* register.
C24_UnmapShortIsInvalid ==
  [][\A v \in VMs :
       UnmapCallStep(v) =>
          LET L == last'[v]
              e == last'[v].entry
          IN /\ Len(L.calls) = 1
             /\ L.calls[1].fn = "unmap_pages"
             /\ run'[v] = "guest"
             /\ regs'[v].x1 = L.calls[1].res
             /\ regs'[v].x0 \in {SMCCC_RET_SUCCESS, SMCCC_RET_INVALID_PARAMETER}
             /\ regs'[v].x0 = SMCCC_RET_INVALID_PARAMETER
                   <=> (L.calls[1].res < e.x3 * e.x4 /\ hyp_reqs'[v] = <<>>)]_vars

DevNames == {"ATTACH_DEV", "DETACH_DEV"}
\* the last pvIOMMU handler of vCPU v has returned, to the guest or to the host
Returned(v) ==
  /\ last[v].fn \in {FuncNames[i] : i \in 1 .. Len(FuncNames)}
  /\ pc[v] = "idle"
WireCodes == {SMCCC_RET_SUCCESS, SMCCC_RET_NOT_SUPPORTED, 0 - 2, SMCCC_RET_INVALID_PARAMETER}
\* the driver call i of a handler failed for another reason than lack of memory
DriverRefused(calls, i) ==
  /\ ~calls[i].oom
  /\ IF calls[i].fn = "map_pages" THEN calls[i].res = 0
     ELSE IF calls[i].fn = "unmap_pages" THEN FALSE
     ELSE calls[i].res # OK

UnknownFuncStep(v) == \E r \in UnknownFuncArgs : kvm_handle_pviommu_hvc(v, r)

C27_AddVsidAfterFinaliseInvalid ==
  [][\A vm \in VMs :
        (/\ hostCall.fn = "pviommu_finalise"
         /\ hostCall.ret = OK
         /\ hostCall.vm = vm
         /\ HostPviommuAddVsid
         /\ hostCall'.vm = vm) => hostCall'.ret = "EINVAL"]_vars

\* what the code does: finalise returns 0 every time, attach and add_vsid fail with
\* -ENODEV before and after it, and none of them changes anything else
C27_RouteCallsAreStubs ==
  [][(HostPviommuAttach \/ HostPviommuAddVsid \/ HostPviommuFinalise) =>
        /\ hostCall'.ret = IF hostCall'.fn = "pviommu_finalise" THEN OK ELSE "ENODEV"
        /\ UNCHANGED <<ctxt, reset_handler, pageOwner, s2, device_spinlock, pc, op, hvcvars>>]_vars


ProbeStep(v) ==
  /\ last'[v].fn \in {"VERSION", "GET_FEATURE"}
  /\ \E r \in {[ZeroRegs EXCEPT !.x0 = FuncId("VERSION")]}
              \cup {[a EXCEPT !.x0 = FuncId("GET_FEATURE")] : a \in ProbeArgs} :
        kvm_handle_pviommu_hvc(v, r)

\* C29: VERSION returns to the guest with r0 = 0 and r1 = 0x1000; GET_FEATURE returns
\* r0 = 0 and r1 = PAGE_SIZE for selector 1 whatever the viommu argument, and r0 = -3
\* for every other selector; both resume the guest after the HVC and leave the bitmap,
\* the driver state, the registry, the stage-2 and the request area as they were.
C29_ProbesPureConstant ==
  [][\A v \in VMs :
        ProbeStep(v) =>
           /\ run'[v] = "guest"
           /\ elr'[v] = HVC_ADDR + 4
           /\ last'[v].calls = <<>>
           /\ IF last'[v].fn = "VERSION"
              THEN regs'[v].x0 = 0 /\ regs'[v].x1 = 4096
              ELSE IF last'[v].entry.x2 = 1
              THEN regs'[v].x0 = 0 /\ regs'[v].x1 = PAGE_SIZE
              ELSE regs'[v].x0 = 0 - 3
           /\ UNCHANGED <<guest_domains, drv, hyp_reqs, regvars, s2>>]_vars

\* GET_FEATURE with selector 1 and a viommu other than 0 has returned PAGE_SIZE while
\* the caller has a live domain with a mapping and a request pending in its area
C29_Witness ==
  \E v \in VMs :
     /\ last[v].fn = "GET_FEATURE"
     /\ last[v].entry.x1 # 0
     /\ last[v].entry.x2 = 1
     /\ regs[v].x0 = 0
     /\ regs[v].x1 = PAGE_SIZE
     /\ hyp_reqs[v] # <<>>
     /\ \E d \in DomainIds : drv.domains[d] = v /\ \E n \in IovaPages : drv.maps[d][n] # NOMAP


\* C30: when the group assignment made by pkvm_host_map_guest_mmio aborts, every
\* registered device has the owner it had before the call.
C30_AbortRestoresOwners ==
  [][\A vm \in VMs, pfn \in PfnInputs :
        LET dev == pkvm_get_device(hyp_pfn_to_phys(pfn))
        IN (/\ pkvm_host_map_guest_mmio(vm, pfn, MmioGfn(pfn))
            /\ dev # NODEV
            /\ ctxt[dev] = NULL
            /\ __pkvm_group_assign(registered_devices[dev].group_id, vm, ctxt).ret # OK)
           => ctxt' = ctxt]_vars


\* C31: when MAP has returned after a stage-2 fault, the request it posted starts at
\* the faulting page and its size is the whole remainder of the call, the faulting
\* page included, so it is never 0.
C31_MapRequestCoversRemainder ==
  \A v \in VMs :
     (/\ last[v].fn = "MAP"
      /\ pc[v] = "idle"
      /\ last[v].resume
      /\ exit_code[v] = "HYP_REQ"
      /\ hyp_reqs[v] # <<>>
      /\ hyp_reqs[v][Len(hyp_reqs[v])].type = "MAP")
     => LET q == hyp_reqs[v][Len(hyp_reqs[v])]
            e == last[v].entry
        IN /\ q.ipa = e.x3 + regs[v].x1
           /\ q.size = e.x4 * e.x5 - regs[v].x1
           /\ q.size > 0


\* C32: every step that changes the owner of a device is a registry call that called
\* pkvm_device_reset on that device, and a device whose reset failed in the call is
\* not owned by a VM it was not owned by before.
C32_ResetOnEveryOwnerChange ==
  [][\A d \in Devs :
        /\ ctxt'[d] # ctxt[d] => d \in hostCall'.resets
        /\ (ctxt'[d] # ctxt[d] /\ ctxt'[d] # NULL) => pkvm_device_reset(d) = OK]_vars


C34_ExitConsistency ==
  \A v \in VMs :
     (/\ last[v].fn \in {"MAP", "UNMAP", "ATTACH_DEV", "ALLOC_DOMAIN", "REQUEST_MMIO"}
      /\ pc[v] = "idle")
     => /\ ~last[v].resume <=> exit_code[v] = "HYP_REQ"
        /\ ~last[v].resume <=> elr[v] = HVC_ADDR
        /\ ~last[v].resume => regs[v] = last[v].entry


\* C35: the owner of a device owned by a VM changes only in the teardown of that VM,
\* and then to no owner.
C35_NoTakeBacks ==
  [][\A d \in Devs :
        (ctxt[d] # NULL /\ ctxt'[d] # ctxt[d])
        => ctxt'[d] = NULL /\ pkvm_devices_teardown(ctxt[d])]_vars


MapGuestMmioStep == \E vm \in VMs, pfn \in PfnInputs : pkvm_host_map_guest_mmio(vm, pfn, MmioGfn(pfn))

\* C36: a pkvm_host_map_guest_mmio that returns an error leaves the owner of every
\* device and of every page as it was.
C36_MapGuestMmioAllOrNothing ==
  [][(MapGuestMmioStep /\ hostCall'.ret # OK) => ctxt' = ctxt /\ pageOwner' = pageOwner]_vars



\* the clear bits of the whole bitmap, word i bit b counted as i * BITS_PER_LONG + b
FreeIndices(gd) ==
  {n \in 0 .. (KVM_IOMMU_MAX_GUEST_DOMAINS - 1) :
     (n % BITS_PER_LONG) \notin gd[n \div BITS_PER_LONG]}

C38_MapLoopTerminates ==
  \A v \in MappingVMs : (last[v].fn = "MAP") ~> MapLoopDone(v)


C40_AttachAllOrNothing ==
  \A v \in MappingVMs :
     (last[v].fn = "DETACH_DEV" /\ pc[v] = "idle")
     => /\ last[v].entry.x2 = fwspec_ids[1]
        /\ last[v].entry.x3 = SetDevPasid
        /\ drv.attach = {}

====
